---- MODULE Spec2Model ----
(***************************************************************************)
(* Model of the retrieval-and-evaluation core of team-agent:               *)
(*   - the benchmark harness  (backend/core/rag/benchmark_system.py)       *)
(*   - the chunker            (backend/core/rag/vector_store_example.py)   *)
(* Python str values are sequences of one-character strings, so that       *)
(* lower(), split(), strip(), slicing, rfind() and the `in` test are       *)
(* computed, not assumed.  Test-case queries and the enumeration values    *)
(* (difficulty, importance, category) are only ever compared for equality  *)
(* and are kept as atomic strings.                                         *)
(***************************************************************************)
EXTENDS Integers, Sequences, FiniteSets, TLC

(***************************************************************************)
(* Bounds of the model.                                                    *)
(***************************************************************************)
MaxCases == 3
MaxTime == 1
MaxClock == 1
MaxUnits == 6
MaxSize == 4
MaxOverlap == 3
MaxIter == 14
MaxDocs == 2
MaxBatch == 2
MaxResults == 2
MaxLoaded == 2
MaxSources == 2
MaxExtra == 2

(***************************************************************************)
(* Python str primitives.                                                  *)
(***************************************************************************)
\* the letters str.lower() changes, with their lower-case forms
LowerMap ==
  "A" :> "a" @@ "B" :> "b" @@ "C" :> "c" @@ "D" :> "d" @@ "E" :> "e" @@
  "F" :> "f" @@ "G" :> "g" @@ "H" :> "h" @@ "I" :> "i" @@ "J" :> "j" @@
  "K" :> "k" @@ "L" :> "l" @@ "M" :> "m" @@ "N" :> "n" @@ "O" :> "o" @@
  "P" :> "p" @@ "Q" :> "q" @@ "R" :> "r" @@ "S" :> "s" @@ "T" :> "t" @@
  "U" :> "u" @@ "V" :> "v" @@ "W" :> "w" @@ "X" :> "x" @@ "Y" :> "y" @@
  "Z" :> "z"

WhitespaceChars == {" ", "\t", "\n", "\r"}

LowerChar(c) == IF c \in DOMAIN LowerMap THEN LowerMap[c] ELSE c

\* str.lower()
RECURSIVE Lower(_)
Lower(s) ==
  IF s = <<>> THEN <<>> ELSE <<LowerChar(Head(s))>> \o Lower(Tail(s))

\* needle in hay
Contains(needle, hay) ==
  \E k \in 0..(Len(hay) - Len(needle)) :
    \A j \in 1..Len(needle) : hay[k + j] = needle[j]

\* s[a:b] for 0 <= a, b (already normalised indices)
SubStr(s, a, b) ==
  IF a >= b THEN <<>> ELSE [k \in 1..(b - a) |-> s[a + k]]

\* Python's normalisation of a slice index against a length: a negative
\* index counts from the end, and the result is clamped into 0..n
NormIndex(x, n) ==
  IF x < 0 THEN (IF x + n < 0 THEN 0 ELSE x + n)
  ELSE (IF x > n THEN n ELSE x)

\* s[a:b] with Python slice semantics
Slice(s, a, b) == SubStr(s, NormIndex(a, Len(s)), NormIndex(b, Len(s)))

\* s.rfind(sub, a, b): highest 0-based index k with a <= k, k + len(sub) <= b
\* (after slice normalisation of a and b) and s[k:k+len(sub)] = sub; -1 when
\* there is none
RFind(s, sub, a, b) ==
  LET lo == NormIndex(a, Len(s))
      hi == NormIndex(b, Len(s))
      hits == {k \in lo..(hi - Len(sub)) :
                 \A j \in 1..Len(sub) : s[k + j] = sub[j]}
  IN IF hits = {} THEN -1 ELSE CHOOSE k \in hits : \A m \in hits : m <= k

\* s.strip()
Strip(s) ==
  LET keep == {k \in 1..Len(s) : s[k] \notin WhitespaceChars}
  IN IF keep = {} THEN <<>>
     ELSE LET first == CHOOSE k \in keep : \A m \in keep : k <= m
              last == CHOOSE k \in keep : \A m \in keep : m <= k
          IN SubStr(s, first - 1, last)

\* s.split(): the maximal runs of non-whitespace characters, in order
RECURSIVE SplitFrom(_, _)
SplitFrom(s, from) ==
  LET starts == {k \in from..Len(s) : s[k] \notin WhitespaceChars}
  IN IF starts = {} THEN <<>>
     ELSE LET b == CHOOSE k \in starts : \A m \in starts : k <= m
              stops == {k \in b..Len(s) : s[k] \in WhitespaceChars}
              e == IF stops = {} THEN Len(s) + 1
                   ELSE CHOOSE k \in stops : \A m \in stops : k <= m
          IN <<SubStr(s, b - 1, e - 1)>> \o SplitFrom(s, e)

Split(s) == SplitFrom(s, 1)

(***************************************************************************)
(* Rational numbers <<numerator, denominator>>, denominator > 0.  Python   *)
(* computes these quotients in binary floating point; for the small        *)
(* numerators and denominators of a benchmark run the float comparisons    *)
(* m/n >= 0.6 and m/n >= 0.5 agree with the exact ones (3/5 and 6/10 round *)
(* to the same double as the literal 0.6).                                 *)
(***************************************************************************)
Rat(m, n) == <<m, n>>

RatGeq(x, y) == x[1] * y[2] >= y[1] * x[2]

Zero == Rat(0, 1)

(***************************************************************************)
(* chunk_text                                                              *)
(***************************************************************************)
\* "Look for sentence endings within the last 200 chars"
SentenceMargin == 200

Period == <<".">>

\* the literal of line 30 ("Chinese period"): in the source file it is the
\* three characters U+00E3 U+20AC U+201A, each written here by its code point
ChinesePeriod == <<"U+00E3", "U+20AC", "U+201A">>

Max2(a, b) == IF a >= b THEN a ELSE b

Min2(a, b) == IF a <= b THEN a ELSE b

\* the window one character too wide
WindowEndInclusive(text, max_size, start) ==
  LET end == start + max_size + 1
  IN IF end < Len(text)
       THEN LET search_start == Max2(start + max_size - SentenceMargin, start)
                period == RFind(text, Period, search_start, end)
                sentence_end == IF period = -1
                                  THEN RFind(text, ChinesePeriod, search_start, end)
                                  ELSE period
            IN IF sentence_end # -1 THEN sentence_end + 1 ELSE end
       ELSE end

\* lines 22-32: the right edge of the window that starts at start
WindowEnd(text, max_size, start) ==
  LET end == start + max_size
  IN IF end < Len(text)
       THEN LET search_start == Max2(start + max_size - SentenceMargin, start)
                period == RFind(text, Period, search_start, end)
                sentence_end == IF period = -1
                                  THEN RFind(text, ChinesePeriod, search_start, end)
                                  ELSE period
            IN IF sentence_end # -1 THEN sentence_end + 1 ELSE end
       ELSE end

\* the window's text appended as it is, without strip()
WithChunkUntrimmed(chunks, text, start, end) ==
  LET chunk == Slice(text, start, end)
  IN IF chunk # <<>> THEN Append(chunks, chunk) ELSE chunks

\* lines 34-36: the window's text, stripped; appended when not empty
WithChunk(chunks, text, start, end) ==
  LET chunk == Strip(Slice(text, start, end))
  IN IF chunk # <<>> THEN Append(chunks, chunk) ELSE chunks

\* the next start one character further back
NextStartOneBack(text, overlap, end) ==
  IF end < Len(text) THEN end - overlap - 1 ELSE Len(text)

\* line 39: move start position with overlap
NextStart(text, overlap, end) ==
  IF end < Len(text) THEN end - overlap ELSE Len(text)

\* the while loop of lines 21-39, run for at most fuel iterations;
\* returns = FALSE when the loop is still running after that
RECURSIVE ChunkLoop(_, _, _, _, _, _)
ChunkLoop(text, max_size, overlap, start, chunks, fuel) ==
  IF ~(start < Len(text)) THEN [returns |-> TRUE, chunks |-> chunks]
  ELSE IF fuel = 0 THEN [returns |-> FALSE, chunks |-> chunks]
  ELSE LET end == WindowEnd(text, max_size, start)
       IN ChunkLoop(text, max_size, overlap,
                    NextStart(text, overlap, end),
                    WithChunk(chunks, text, start, end),
                    fuel - 1)

chunk_text(text, max_size, overlap) ==
  IF Len(text) <= max_size
    THEN [returns |-> TRUE, chunks |-> <<text>>]
    ELSE ChunkLoop(text, max_size, overlap, 0, <<>>, MaxIter)

(***************************************************************************)
(* chunk_documents.  A Python value is a record [type, value]; the value   *)
(* of a dict is a function from its keys.                                  *)
(***************************************************************************)
PyDict(fields) == [type |-> "dict", value |-> fields]

PyStr(s) == [type |-> "str", value |-> s]

EmptyDict == [k \in {} |-> k]

\* isinstance(doc, dict) and 'content' in doc
HasContent(doc) == doc.type = "dict" /\ "content" \in DOMAIN doc.value

\* doc.get(key, default)
Get(doc, key, default) ==
  IF key \in DOMAIN doc.value THEN doc.value[key] ELSE default

DigitChars == <<"0", "1", "2", "3", "4", "5", "6", "7", "8", "9">>

\* str(n) for n >= 0, as the f-string formats chunk indices
RECURSIVE IntToStr(_)
IntToStr(n) ==
  IF n < 10 THEN <<DigitChars[n + 1]>>
  ELSE IntToStr(n \div 10) \o <<DigitChars[(n % 10) + 1]>>

S_doc == <<"d","o","c">>

S_chunk == <<"_","c","h","u","n","k","_">>

\* the record of chunk idx with the index counted from 1
ChunkDocFromOne(doc, idx, chunk, total) ==
  PyDict([id |-> Get(doc, "id", S_doc) \o S_chunk \o IntToStr(idx + 1),
          content |-> Strip(chunk),
          metadata |-> [chunk_index |-> idx + 1,
                        total_chunks |-> total,
                        original_id |-> Get(doc, "id", S_doc),
                        chunk_type |-> "text"]
                       @@ Get(doc, "metadata", EmptyDict)])

\* lines 60-70: the record of chunk i (0-based) of doc
ChunkDoc(doc, idx, chunk, total) ==
  PyDict([id |-> Get(doc, "id", S_doc) \o S_chunk \o IntToStr(idx),
          content |-> Strip(chunk),
          metadata |-> [chunk_index |-> idx,
                        total_chunks |-> total,
                        original_id |-> Get(doc, "id", S_doc),
                        chunk_type |-> "text"]
                       @@ Get(doc, "metadata", EmptyDict)])

\* lines 58-71: for i, chunk in enumerate(text_chunks), from index k on
RECURSIVE ChunkDocs(_, _, _)
ChunkDocs(doc, text_chunks, k) ==
  IF k > Len(text_chunks) THEN <<>>
  ELSE (IF Strip(text_chunks[k]) # <<>>
          THEN <<ChunkDoc(doc, k - 1, text_chunks[k], Len(text_chunks))>>
          ELSE <<>>)
       \o ChunkDocs(doc, text_chunks, k + 1)

\* the same with "len(content) < max_size" as the pass-through test
ChunkOneDocumentStrict(doc, max_size, overlap) ==
  IF HasContent(doc)
    THEN IF Len(doc.value.content) < max_size
           THEN <<doc>>
           ELSE ChunkDocs(doc, chunk_text(doc.value.content, max_size, overlap).chunks, 1)
    ELSE <<doc>>

\* lines 48-73: what one document adds to chunked_documents
ChunkOneDocument(doc, max_size, overlap) ==
  IF HasContent(doc)
    THEN IF Len(doc.value.content) <= max_size
           THEN <<doc>>
           ELSE ChunkDocs(doc, chunk_text(doc.value.content, max_size, overlap).chunks, 1)
    ELSE <<doc>>

\* chunk_text returns for this document (or is not called for it)
ChunkReturns(doc, max_size, overlap) ==
  (HasContent(doc) /\ Len(doc.value.content) > max_size)
    => chunk_text(doc.value.content, max_size, overlap).returns

RECURSIVE chunk_documents(_, _, _)
chunk_documents(documents, max_size, overlap) ==
  IF documents = <<>> THEN <<>>
  ELSE ChunkOneDocument(Head(documents), max_size, overlap)
       \o chunk_documents(Tail(documents), max_size, overlap)

(***************************************************************************)
(* ConfluenceBenchmark: test cases.                                        *)
(***************************************************************************)
NoneValue == "<None>"

\* the test cases of _create_test_cases the model runs with (cases 1, 2, 6,
\* 11 and 12 of the source, in source order); queries are pairwise distinct
create_test_cases ==
  << [query |-> "What Kafka topic does the Order-Processor Service consume from?",
      expected_answer |->
        <<"n","e","w","-","o","r","d","e","r","s">>,
      difficulty |-> "EASY", importance |-> "MEDIUM", category |-> "Configuration"],
     [query |-> "How many replicas does the Order-Processor Service have in production?",
      expected_answer |->
        <<"3"," ","r","e","p","l","i","c","a","s">>,
      difficulty |-> "EASY", importance |-> "MEDIUM", category |-> "Architecture"],
     [query |-> "What happens when the Payment Gateway has repeated 5xx errors?",
      expected_answer |->
        <<"K","a","f","k","a"," ","l","i","s","t","e","n","e","r"," ","s","t","o","p","s"," ","a","n","d"," ","o","r","d","e","r","s"," ","a","r","e"," ","w","r","i","t","t","e","n"," ","t","o"," ","l","o","c","a","l"," ","H","2"," ","d","a","t","a","b","a","s","e"," ","f","i","l","e">>,
      difficulty |-> "MEDIUM", importance |-> "HIGH", category |-> "Error Handling"],
     [query |-> "What are the data loss risks in the Order-Processor Service?",
      expected_answer |->
        <<"P","o","d"," ","r","e","s","t","a","r","t"," ","d","u","r","i","n","g"," ","P","A","Y","M","E","N","T","_","H","A","L","T"," ","s","t","a","t","e"," ","c","a","u","s","e","s"," ","p","e","r","m","a","n","e","n","t"," ","o","r","d","e","r"," ","l","o","s","s"," ","f","r","o","m"," ","l","o","c","a","l"," ","H","2"," ","f","i","l","e">>,
      difficulty |-> "HARD", importance |-> "CRITICAL", category |-> "Risk Management"],
     [query |-> "Which parts of the Order-Processor system have no test coverage?",
      expected_answer |->
        <<"L","e","g","a","c","y","P","a","y","m","e","n","t","F","a","l","l","b","a","c","k"," ","c","l","a","s","s"," ","-"," ","t","h","e"," ","d","e","p","r","e","c","a","t","e","d"," ","p","a","y","m","e","n","t"," ","f","a","l","l","b","a","c","k"," ","m","e","c","h","a","n","i","s","m">>,
      difficulty |-> "HARD", importance |-> "CRITICAL", category |-> "Code Quality"] >>

\* the test_cases attribute: the full list, or a slice of it that a caller
\* has assigned (quick_benchmark keeps test_cases[:8]); order is kept
TestCaseLists ==
  {SubStr(create_test_cases, p[1], p[2]) :
     p \in {q \in (0..Len(create_test_cases)) \X (0..Len(create_test_cases)) :
              q[2] - q[1] <= MaxCases}}

(***************************************************************************)
(* evaluate_answer                                                         *)
(***************************************************************************)
\* the hand-written key-term heuristics, in source order
KeyTermRules ==
  << [mode |-> "any",
      needles |-> << <<"3"," ","r","e","t","r","y">>,
                   <<"3","-","s","e","c","o","n","d">> >>,
      terms |-> << <<"3">>,
                <<"r","e","t","r","y">>,
                <<"s","e","c","o","n","d">> >>],
     [mode |-> "any",
      needles |-> << <<"n","e","w","-","o","r","d","e","r","s">> >>,
      terms |-> << <<"n","e","w","-","o","r","d","e","r","s">> >>],
     [mode |-> "any",
      needles |-> << <<"p","a","y","m","e","n","t","_","h","a","l","t">>,
                   <<"k","a","f","k","a"," ","l","i","s","t","e","n","e","r"," ","s","t","o","p","s">> >>,
      terms |-> << <<"p","a","y","m","e","n","t">>,
                <<"h","a","l","t">>,
                <<"l","i","s","t","e","n","e","r">>,
                <<"s","t","o","p">> >>],
     [mode |-> "all",
      needles |-> << <<"h","2">>,
                   <<"f","i","l","e">> >>,
      terms |-> << <<"h","2">>,
                <<"f","i","l","e">>,
                <<"l","o","c","a","l">> >>],
     [mode |-> "any",
      needles |-> << <<"p","o","d"," ","r","e","s","t","a","r","t">> >>,
      terms |-> << <<"p","o","d">>,
                <<"r","e","s","t","a","r","t">> >>],
     [mode |-> "all",
      needles |-> << <<"p","e","r","m","a","n","e","n","t">>,
                   <<"l","o","s","s">> >>,
      terms |-> << <<"p","e","r","m","a","n","e","n","t">>,
                <<"l","o","s","s">> >>],
     [mode |-> "any",
      needles |-> << <<"l","e","g","a","c","y","p","a","y","m","e","n","t","f","a","l","l","b","a","c","k">> >>,
      terms |-> << <<"l","e","g","a","c","y">>,
                <<"p","a","y","m","e","n","t">>,
                <<"f","a","l","l","b","a","c","k">> >>],
     [mode |-> "any",
      needles |-> << <<"t","e","s","t"," ","c","o","v","e","r","a","g","e">> >>,
      terms |-> << <<"t","e","s","t">>,
                <<"c","o","v","e","r","a","g","e">> >>],
     [mode |-> "any",
      needles |-> << <<"d","e","p","r","e","c","a","t","e","d">> >>,
      terms |-> << <<"d","e","p","r","e","c","a","t","e","d">> >>],
     [mode |-> "any",
      needles |-> << <<"h","a","r","d","c","o","d","e","d">> >>,
      terms |-> << <<"h","a","r","d","c","o","d","e","d">>,
                <<"r","e","d","i","s">> >>],
     [mode |-> "any",
      needles |-> << <<"j","a","v","a"," ","1","7">> >>,
      terms |-> << <<"j","a","v","a">>,
                <<"1","7">> >>],
     [mode |-> "any",
      needles |-> << <<"s","p","r","i","n","g"," ","b","o","o","t">> >>,
      terms |-> << <<"s","p","r","i","n","g">>,
                <<"b","o","o","t">> >>] >>

\* the fallback extraction drops these words
StopWords ==
  { <<"t","h","a","t">>,
    <<"w","i","t","h">>,
    <<"f","r","o","m">>,
    <<"t","h","i","s">> }

RuleFires(rule, expected_lower) ==
  IF rule.mode = "any"
    THEN \E k \in 1..Len(rule.needles) : Contains(rule.needles[k], expected_lower)
    ELSE \A k \in 1..Len(rule.needles) : Contains(rule.needles[k], expected_lower)

RECURSIVE HeuristicTerms(_, _)
HeuristicTerms(expected_lower, k) ==
  IF k > Len(KeyTermRules) THEN <<>>
  ELSE (IF RuleFires(KeyTermRules[k], expected_lower)
          THEN KeyTermRules[k].terms ELSE <<>>)
       \o HeuristicTerms(expected_lower, k + 1)

FallbackTerms(expected_lower) ==
  SelectSeq(Split(expected_lower), LAMBDA w : Len(w) > 3 /\ w \notin StopWords)

KeyTerms(expected_lower) ==
  IF HeuristicTerms(expected_lower, 1) # <<>>
    THEN HeuristicTerms(expected_lower, 1)
    ELSE FallbackTerms(expected_lower)

\* sum(1 for term in key_terms if term in actual_lower)
RECURSIVE CountMatches(_, _)
CountMatches(key_terms, actual_lower) ==
  IF key_terms = <<>> THEN 0
  ELSE (IF Contains(Head(key_terms), actual_lower) THEN 1 ELSE 0)
       + CountMatches(Tail(key_terms), actual_lower)

\* the quotient without the guard on an empty key-term list
ConfidenceScoreUnguarded(matches, n) == Rat(matches, n)

ConfidenceScore(matches, n) == IF n > 0 THEN Rat(matches, n) ELSE Zero

Threshold(difficulty) == IF difficulty # "HARD" THEN Rat(6, 10) ELSE Rat(5, 10)

\* the comparison the source comment describes ("> 0.6", "> 0.5")
IsCorrectStrict(confidence_score, difficulty) ==
  ~RatGeq(Threshold(difficulty), confidence_score)

IsCorrect(confidence_score, difficulty) ==
  RatGeq(confidence_score, Threshold(difficulty))

\* evaluate_answer that looks for the key terms in the answer as written
evaluate_answer_as_written(expected, actual, difficulty) ==
  LET key_terms == KeyTerms(Lower(expected))
      matches == CountMatches(key_terms, actual)
      confidence_score == ConfidenceScore(matches, Len(key_terms))
  IN [is_correct |-> IsCorrect(confidence_score, difficulty),
      confidence_score |-> confidence_score,
      evaluation_notes |-> [prefix |-> "Key terms found: ",
                            text |-> <<>>,
                            matches |-> matches,
                            total |-> Len(key_terms)]]

\* evaluate_answer(expected, actual, test_case); only the difficulty of the
\* test case is read
evaluate_answer(expected, actual, difficulty) ==
  LET key_terms == KeyTerms(Lower(expected))
      matches == CountMatches(key_terms, Lower(actual))
      confidence_score == ConfidenceScore(matches, Len(key_terms))
  IN [is_correct |-> IsCorrect(confidence_score, difficulty),
      confidence_score |-> confidence_score,
      evaluation_notes |-> [prefix |-> "Key terms found: ",
                            text |-> <<>>,
                            matches |-> matches,
                            total |-> Len(key_terms)]]

(***************************************************************************)
(* EvaluationResult records built by evaluate_rag_system                   *)
(***************************************************************************)
\* text constants of evaluate_rag_system and of the exceptions it catches
S_ERROR ==
  <<"E","R","R","O","R",":"," ">>

NoMethodMessage ==
  <<"R","A","G"," ","s","y","s","t","e","m"," ","m","u","s","t"," ","h","a","v","e"," ","'","a","s","k","'"," ","o","r"," ","'","q","u","e","r","y","'"," ","m","e","t","h","o","d">>

NoLowerMessage ==
  <<"'","N","o","n","e","T","y","p","e","'"," ","o","b","j","e","c","t"," ","h","a","s"," ","n","o"," ","a","t","t","r","i","b","u","t","e"," ","'","l","o","w","e","r","'">>

BoomMessage ==
  <<"c","o","n","n","e","c","t","i","o","n"," ","r","e","f","u","s","e","d">>

\* test_case.category or "Unknown"
CategoryOf(tc) ==
  IF tc.category = NoneValue \/ tc.category = "" THEN "Unknown" ELSE tc.category

SuccessResult(tc, actual_answer, query_time) ==
  LET ev == evaluate_answer(tc.expected_answer, actual_answer, tc.difficulty)
  IN [query |-> tc.query,
      expected_answer |-> tc.expected_answer,
      actual_answer |-> actual_answer,
      is_correct |-> ev.is_correct,
      confidence_score |-> ev.confidence_score,
      response_time |-> query_time,
      difficulty |-> tc.difficulty,
      category |-> CategoryOf(tc),
      evaluation_notes |-> ev.evaluation_notes]

\* the except branch without the error text in the notes
ErrorResultNoText(tc, e) ==
  [query |-> tc.query,
   expected_answer |-> tc.expected_answer,
   actual_answer |-> S_ERROR \o e,
   is_correct |-> FALSE,
   confidence_score |-> Zero,
   response_time |-> 0,
   difficulty |-> tc.difficulty,
   category |-> CategoryOf(tc),
   evaluation_notes |-> [prefix |-> "System error: ",
                         text |-> <<>>,
                         matches |-> 0,
                         total |-> 0]]

ErrorResult(tc, e) ==
  [query |-> tc.query,
   expected_answer |-> tc.expected_answer,
   actual_answer |-> S_ERROR \o e,
   is_correct |-> FALSE,
   confidence_score |-> Zero,
   response_time |-> 0,
   difficulty |-> tc.difficulty,
   category |-> CategoryOf(tc),
   evaluation_notes |-> [prefix |-> "System error: ",
                         text |-> e,
                         matches |-> 0,
                         total |-> 0]]

\* results.insert(0, result)
PrependResult(rs, r) == <<r>> \o rs

\* results.append(result)
AppendResult(rs, r) == Append(rs, r)

(***************************************************************************)
(* _generate_report                                                        *)
(***************************************************************************)
Difficulties == <<"EASY", "MEDIUM", "HARD">>

RECURSIVE SumTimes(_)
SumTimes(rs) ==
  IF rs = <<>> THEN 0 ELSE Head(rs).response_time + SumTimes(Tail(rs))

\* the share of the results that are not correct
InaccuracyOf(group) ==
  IF group # <<>>
    THEN Rat(Len(SelectSeq(group, LAMBDA r : ~r.is_correct)), Len(group))
    ELSE Zero

\* correct / len(group) for a non-empty group, else the literal 0
AccuracyOf(group) ==
  IF group # <<>>
    THEN Rat(Len(SelectSeq(group, LAMBDA r : r.is_correct)), Len(group))
    ELSE Zero

\* statistics.mean over the response times of all the results of a group
MeanTimeOfAll(group) ==
  IF group # <<>> THEN Rat(SumTimes(group), Len(group)) ELSE Zero

\* statistics.mean over the positive response times of a group, else 0
MeanTimeOf(group) ==
  LET timed == SelectSeq(group, LAMBDA r : r.response_time > 0)
  IN IF timed # <<>> THEN Rat(SumTimes(timed), Len(timed)) ELSE Zero

\* the first result of the run, whatever its query
FirstResultOfAll(rs, tc) ==
  IF rs = <<>> THEN <<>> ELSE <<Head(rs)>>

\* next((r for r in results if r.query == tc.query), None)
FirstResultFor(rs, tc) ==
  LET found == SelectSeq(rs, LAMBDA r : r.query = tc.query)
  IN IF found = <<>> THEN <<>> ELSE <<Head(found)>>

\* the loop of lines 409-412 with the test on is_correct not negated
RECURSIVE CriticalHits(_, _)
CriticalHits(critical_test_cases, rs) ==
  IF critical_test_cases = <<>> THEN <<>>
  ELSE LET tc == Head(critical_test_cases)
           result == FirstResultFor(rs, tc)
       IN (IF result # <<>> /\ result[1].is_correct THEN <<tc.query>> ELSE <<>>)
          \o CriticalHits(Tail(critical_test_cases), rs)

RECURSIVE CriticalMisses(_, _)
CriticalMisses(critical_test_cases, rs) ==
  IF critical_test_cases = <<>> THEN <<>>
  ELSE LET tc == Head(critical_test_cases)
           result == FirstResultFor(rs, tc)
       IN (IF result # <<>> /\ ~result[1].is_correct THEN <<tc.query>> ELSE <<>>)
          \o CriticalMisses(Tail(critical_test_cases), rs)

\* a report whose system name carries the time of the call
generate_report_stamped(tcs, rs, name, now) ==
  LET total_cases == Len(rs)
      correct_answers == Len(SelectSeq(rs, LAMBDA r : r.is_correct))
      categories == {rs[k].category : k \in 1..Len(rs)}
  IN [total_cases |-> total_cases,
      correct_answers |-> correct_answers,
      overall_accuracy |->
        IF total_cases > 0 THEN Rat(correct_answers, total_cases) ELSE Zero,
      accuracy_by_difficulty |->
        [d \in {Difficulties[k] : k \in 1..3} |->
           AccuracyOf(SelectSeq(rs, LAMBDA r : r.difficulty = d))],
      accuracy_by_category |->
        [c \in categories |->
           AccuracyOf(SelectSeq(rs, LAMBDA r : r.category = c))],
      avg_response_time |-> MeanTimeOf(rs),
      response_time_by_difficulty |->
        [d \in {Difficulties[k] : k \in 1..3} |->
           MeanTimeOf(SelectSeq(rs, LAMBDA r : r.difficulty = d))],
      critical_misses |->
        CriticalMisses(SelectSeq(tcs, LAMBDA tc : tc.importance = "CRITICAL"), rs),
      evaluation_timestamp |-> now,
      system_name |-> <<name, now>>]

\* lines 370-425
generate_report(tcs, rs, name, now) ==
  LET total_cases == Len(rs)
      correct_answers == Len(SelectSeq(rs, LAMBDA r : r.is_correct))
      categories == {rs[k].category : k \in 1..Len(rs)}
  IN [total_cases |-> total_cases,
      correct_answers |-> correct_answers,
      overall_accuracy |->
        IF total_cases > 0 THEN Rat(correct_answers, total_cases) ELSE Zero,
      accuracy_by_difficulty |->
        [d \in {Difficulties[k] : k \in 1..3} |->
           AccuracyOf(SelectSeq(rs, LAMBDA r : r.difficulty = d))],
      accuracy_by_category |->
        [c \in categories |->
           AccuracyOf(SelectSeq(rs, LAMBDA r : r.category = c))],
      avg_response_time |-> MeanTimeOf(rs),
      response_time_by_difficulty |->
        [d \in {Difficulties[k] : k \in 1..3} |->
           MeanTimeOf(SelectSeq(rs, LAMBDA r : r.difficulty = d))],
      critical_misses |->
        CriticalMisses(SelectSeq(tcs, LAMBDA tc : tc.importance = "CRITICAL"), rs),
      evaluation_timestamp |-> now,
      system_name |-> name]

(***************************************************************************)
(* VectorStore (vector_store.py).  The backend is one chromadb collection: *)
(* a function from the ids it holds to [content, metadata].  A call of the *)
(* backend either raises and leaves the collection as it was, or applies.  *)
(* Field values of a stored document are Python values [type, value].      *)
(***************************************************************************)
PyInt(n) == [type |-> "int", value |-> IntToStr(n)]

PyNone == [type |-> "NoneType", value |-> <<"N","o","n","e">>]

HasKey(doc, key) == key \in DOMAIN doc.value

\* the first element on which doc[key] raises, 0 when there is none
RECURSIVE FirstWithout(_, _, _)
FirstWithout(documents, key, k) ==
  IF k > Len(documents) THEN 0
  ELSE IF documents[k].type # "dict" \/ ~HasKey(documents[k], key) THEN k
  ELSE FirstWithout(documents, key, k + 1)

\* lines 41-43 / 98-100: the exception raised while the three argument
\* lists are built ([doc['content'] ...] first, [doc['id'] ...] last)
BatchError(documents) ==
  LET c == FirstWithout(documents, "content", 1)
      d == FirstWithout(documents, "id", 1)
      k == IF c # 0 THEN c ELSE d
  IN IF k = 0 THEN "none"
     ELSE IF documents[k].type # "dict" THEN "TypeError"
     ELSE "KeyError"

\* the lists handed to the backend
ContentsOf(documents) == [k \in 1..Len(documents) |-> documents[k].value.content]

MetadatasOf(documents) ==
  [k \in 1..Len(documents) |-> Get(documents[k], "metadata", EmptyDict)]

IdsOf(documents) == [k \in 1..Len(documents) |-> documents[k].value.id]

\* the backend validates its arguments before it writes: ids and documents
\* are str, ids are not repeated in one call
BackendRejects(ids, contents) ==
  \/ \E k \in 1..Len(ids) : ids[k].type # "str"
  \/ \E k \in 1..Len(contents) : contents[k].type # "str"
  \/ \E j, k \in 1..Len(ids) : j # k /\ ids[j] = ids[k]

\* collection.add: a record whose id the collection holds already is left
\* as it is, the others are inserted
RECURSIVE CollectionAdd(_, _, _, _, _)
CollectionAdd(store, ids, contents, metadatas, k) ==
  IF k > Len(ids) THEN store
  ELSE LET key == ids[k].value
           next == IF key \in DOMAIN store THEN store
                   ELSE store @@ (key :> [content |-> contents[k].value,
                                          metadata |-> metadatas[k]])
       IN CollectionAdd(next, ids, contents, metadatas, k + 1)

\* collection.update: the record of an id the collection holds gets the new
\* content and the new metadata keys; an unknown id is ignored
RECURSIVE CollectionUpdate(_, _, _, _, _)
CollectionUpdate(store, ids, contents, metadatas, k) ==
  IF k > Len(ids) THEN store
  ELSE LET key == ids[k].value
           next == IF key \in DOMAIN store
                     THEN [store EXCEPT ![key] =
                             [content |-> contents[k].value,
                              metadata |-> metadatas[k] @@ store[key].metadata]]
                     ELSE store
       IN CollectionUpdate(next, ids, contents, metadatas, k + 1)

\* collection.delete(ids=ids)
CollectionDelete(store, ids) ==
  [key \in DOMAIN store \ {ids[k] : k \in 1..Len(ids)} |-> store[key]]

\* collection.count()
CollectionCount(store) == Cardinality(DOMAIN store)

S_NotInitialized == "ValueError: Collection not initialized. Call create_or_get_collection first."

CollectionName == "team_knowledge"

CollectionMetadata == [hnsw_space |-> "cosine"]

\* what one method call gives back: the collection afterwards, whether it
\* returned or raised, the error, the value returned, and whether the
\* backend was called
Outcome(store, status, error, value, called) ==
  [db |-> store, status |-> status, error |-> error, value |-> value,
   backend_called |-> called]

NotInitialized(store) == Outcome(store, "raise", S_NotInitialized, <<>>, FALSE)

(***************************************************************************)
(* The system under test: what one call of ask / query can produce.        *)
(***************************************************************************)
AnswerPool ==
  { <<"I","t"," ","c","o","n","s","u","m","e","s"," ","f","r","o","m"," ","t","h","e"," ","n","e","w","-","o","r","d","e","r","s"," ","t","o","p","i","c",".">>,
    <<"P","o","d"," ","r","e","s","t","a","r","t"," ","c","a","n"," ","c","a","u","s","e"," ","d","a","t","a"," ","l","o","s","s"," ","f","r","o","m"," ","l","o","c","a","l"," ","H","2"," ","f","i","l","e">>,
    <<"L","e","g","a","c","y"," ","p","a","y","m","e","n","t">> }

\* ask returns a str-able object, a dict with an 'answer', a dict without
\* one, a dict whose 'answer' is None, or raises an Exception
AskOutcomes ==
  {[kind |-> k, value |-> a] : k \in {"object", "dict"}, a \in AnswerPool}
  \cup {[kind |-> "dict_no_answer", value |-> <<>>],
        [kind |-> "dict_answer_none", value |-> <<>>],
        [kind |-> "raise", value |-> BoomMessage]}

\* query returns a str-able object or raises an Exception
QueryOutcomes ==
  {[kind |-> "object", value |-> a] : a \in AnswerPool}
  \cup {[kind |-> "raise", value |-> BoomMessage]}

NoResponse == [kind |-> "none", value |-> <<>>]

NoReport == [total_cases |-> -1]

NoFile == [run |-> 0]

SystemShapes == {"ask", "query", "neither"}

(***************************************************************************)
(* State                                                                   *)
(***************************************************************************)
VARIABLES
  test_cases,    \* ConfluenceBenchmark.test_cases
  rag_system,    \* which of ask / query the system under test offers
  system_name,   \* argument of evaluate_rag_system
  pc,            \* position in evaluate_rag_system
  i,             \* loop index of enumerate(self.test_cases, 1)
  response,      \* outcome of the pending call to the system under test
  results,       \* local list results
  report,        \* the BenchmarkReport returned
  ea_pc, ea_in, ea_out,  \* one direct call of evaluate_answer
  ct_pc,         \* position in chunk_text
  ct_text, ct_max_size, ct_overlap,   \* its arguments
  ct_start,      \* local start
  ct_chunks,     \* local chunks, and the list returned
  ct_iter,       \* number of loop iterations made
  cd_pc,         \* position in chunk_documents
  cd_documents, cd_max_size, cd_overlap,   \* its arguments
  cd_out,        \* the list chunk_documents returns
  collection,    \* VectorStore.collection: None or the collection handle
  db,            \* the records the backend collection holds
  db_before,     \* the records it held when the latest call began
  vs_out,        \* the latest VectorStore call and its outcome
  cs_pc,         \* position of the one call of convert_and_store
  cs_out,        \* that call and its outcome
  qa_agent,      \* web_app.qa_agent: None or the QAAgent
  qa_out,        \* the latest call of QAAgent.ask and its outcome
  chat_out,      \* the latest request to chat_endpoint and its response
  run,           \* which call of evaluate_rag_system on this harness this is
  ask_fn,        \* a system under test whose ask is a function of the query
  first_scores,  \* is_correct and confidence_score of the first run
  report2,       \* what a second call of _generate_report returned
  self_results,  \* ConfluenceBenchmark.results, the attribute of the harness
  results_file   \* the latest detailed-results file and the run that wrote it

harnessVars == <<test_cases, rag_system, system_name, pc, i, response, results, report>>

evalVars == <<ea_pc, ea_in, ea_out>>

textVars == <<ct_pc, ct_text, ct_max_size, ct_overlap, ct_start, ct_chunks, ct_iter>>

docsVars == <<cd_pc, cd_documents, cd_max_size, cd_overlap, cd_out>>

chunkVars == <<textVars, docsVars>>

storeVars == <<collection, db, db_before, vs_out>>

ingestVars == <<cs_pc, cs_out>>

agentVars == <<qa_agent, qa_out, chat_out>>

runVars == <<run, ask_fn, first_scores, report2, self_results, results_file>>

otherVars == <<storeVars, ingestVars, agentVars, runVars>>

vars == <<harnessVars, evalVars, chunkVars, otherVars>>

HarnessIdle ==
  /\ test_cases = <<>>
  /\ rag_system = "ask"
  /\ system_name = "Unknown"
  /\ pc = "off"
  /\ i = 0
  /\ response = NoResponse
  /\ results = <<>>
  /\ report = NoReport

EvalIdle ==
  /\ ea_pc = "off"
  /\ ea_in = [expected |-> <<>>, actual |-> <<>>, difficulty |-> "EASY"]
  /\ ea_out = [is_correct |-> FALSE]

TextIdle ==
  /\ ct_pc = "off"
  /\ ct_text = <<>>
  /\ ct_max_size = 1
  /\ ct_overlap = 0
  /\ ct_start = 0
  /\ ct_chunks = <<>>
  /\ ct_iter = 0

DocsIdle ==
  /\ cd_pc = "off"
  /\ cd_documents = <<>>
  /\ cd_max_size = 1
  /\ cd_overlap = 0
  /\ cd_out = <<>>

ChunkIdle == TextIdle /\ DocsIdle

NoCall == [op |-> "none"]

StoreIdle ==
  /\ collection = "None"
  /\ db = EmptyDict
  /\ db_before = EmptyDict
  /\ vs_out = NoCall

IngestIdle ==
  /\ cs_pc = "off"
  /\ cs_out = NoCall

AgentIdle ==
  /\ qa_agent = "None"
  /\ qa_out = NoCall
  /\ chat_out = NoCall

RunIdle ==
  /\ run = 0
  /\ ask_fn = EmptyDict
  /\ first_scores = <<>>
  /\ report2 = NoReport
  /\ self_results = <<>>
  /\ results_file = NoFile

OtherIdle == StoreIdle /\ IngestIdle /\ AgentIdle /\ RunIdle

(***************************************************************************)
(* evaluate_rag_system, one step per call of the system under test         *)
(***************************************************************************)
Init ==
  /\ test_cases \in TestCaseLists
  /\ rag_system \in SystemShapes
  /\ system_name = "Unknown"
  /\ pc = "idle"
  /\ i = 0
  /\ response = NoResponse
  /\ results = <<>>
  /\ report = NoReport
  /\ EvalIdle
  /\ ChunkIdle
  /\ OtherIdle

\* the loop entered with the results list of the call before
EvaluateStartKeeping ==
  /\ pc = "idle"
  /\ results' = results
  /\ i' = 1
  /\ pc' = IF test_cases = <<>> THEN "report" ELSE "case"
  /\ UNCHANGED <<test_cases, rag_system, system_name, response, report, evalVars, chunkVars, otherVars>>

\* lines 301-306: results = [], enter the loop
EvaluateStart ==
  /\ pc = "idle"
  /\ results' = <<>>
  /\ i' = 1
  /\ pc' = IF test_cases = <<>> THEN "report" ELSE "case"
  /\ UNCHANGED <<test_cases, rag_system, system_name, response, report, evalVars, chunkVars, otherVars>>

\* lines 312-313: the system has ask; call it with the query of case i
CallAsk ==
  /\ pc = "case"
  /\ rag_system = "ask"
  /\ \E o \in AskOutcomes : response' = o
  /\ pc' = "returned"
  /\ UNCHANGED <<test_cases, rag_system, system_name, i, results, report, evalVars, chunkVars, otherVars>>

\* lines 315-316: no ask, but query
CallQuery ==
  /\ pc = "case"
  /\ rag_system = "query"
  /\ \E o \in QueryOutcomes : response' = o
  /\ pc' = "returned"
  /\ UNCHANGED <<test_cases, rag_system, system_name, i, results, report, evalVars, chunkVars, otherVars>>

\* lines 317-318: neither; ValueError is raised inside the try block
RaiseNoMethod ==
  /\ pc = "case"
  /\ rag_system = "neither"
  /\ response' = [kind |-> "raise", value |-> NoMethodMessage]
  /\ pc' = "returned"
  /\ UNCHANGED <<test_cases, rag_system, system_name, i, results, report, evalVars, chunkVars, otherVars>>

\* the answer string taken from a response (line 314 / 316)
ActualAnswer(resp) ==
  IF resp.kind = "dict_no_answer" THEN <<>> ELSE resp.value

\* a response on which the try block raises: the call raised, or
\* evaluate_answer calls lower() on a None answer
Raises(resp) == resp.kind \in {"raise", "dict_answer_none"}

ErrorText(resp) ==
  IF resp.kind = "dict_answer_none" THEN NoLowerMessage ELSE resp.value

NextCase ==
  /\ i' = i + 1
  /\ pc' = IF i < Len(test_cases) THEN "case" ELSE "report"
  /\ response' = NoResponse

\* lines 320-341: time taken, answer scored, result appended
RecordResult ==
  /\ pc = "returned"
  /\ ~Raises(response)
  /\ \E query_time \in 0..MaxTime :
       results' = AppendResult(results,
                    SuccessResult(test_cases[i], ActualAnswer(response), query_time))
  /\ NextCase
  /\ UNCHANGED <<test_cases, rag_system, system_name, report, evalVars, chunkVars, otherVars>>

\* lines 349-362: except Exception
RecordError ==
  /\ pc = "returned"
  /\ Raises(response)
  /\ results' = AppendResult(results, ErrorResult(test_cases[i], ErrorText(response)))
  /\ NextCase
  /\ UNCHANGED <<test_cases, rag_system, system_name, report, evalVars, chunkVars, otherVars>>

\* line 368: return self._generate_report(results, system_name)
ReturnReport ==
  /\ pc = "report"
  /\ \E now \in 0..MaxClock :
       report' = generate_report(test_cases, results, system_name, now)
  /\ pc' = "done"
  /\ UNCHANGED <<test_cases, rag_system, system_name, i, response, results, evalVars, chunkVars, otherVars>>

Next ==
  \/ EvaluateStart
  \/ CallAsk
  \/ CallQuery
  \/ RaiseNoMethod
  \/ RecordResult
  \/ RecordError
  \/ ReturnReport

Spec == Init /\ [][Next]_vars

(***************************************************************************)
(* evaluate_answer called directly                                         *)
(***************************************************************************)
ExpectedPool ==
  { <<>>,
    <<"a"," ","b">>,
    <<"j","a","v","a"," ","1","7"," ","3"," ","r","e","t","r","y">>,
    <<"J","a","v","a"," ","1","7">>,
    <<"S","p","r","i","n","g"," ","B","o","o","t"," ","2",".","7",".","x">>,
    <<"t","h","a","t"," ","l","o","n","g"," ","w","o","r","d"," ","f","r","o","m"," ","h","e","r","e">>,
    <<"p","a","y","m","e","n","t","_","h","a","l","t"," ","a","n","d"," ","L","e","g","a","c","y","P","a","y","m","e","n","t","F","a","l","l","b","a","c","k">> }

ExtraAnswers ==
  { <<"j","a","v","a"," ","1","7"," ","r","e","t","r","y">>,
    <<"J","A","V","A">>,
    <<"s","p","r","i","n","g"," ","b","o","o","t">>,
    <<"l","o","n","g"," ","w","o","r","d">>,
    <<"p","a","y","m","e","n","t">>,
    <<"I"," ","d","o","n","'","t"," ","k","n","o","w">>,
    <<"T","o","p","i","c"," ","N","E","W","-","O","R","D","E","R","S">>,
    <<"n","e","w"," ","o","r","d","e","r","s">> }


EvalExpected == ExpectedPool \cup {create_test_cases[k].expected_answer : k \in 1..Len(create_test_cases)}

EvalActual == AnswerPool \cup ExtraAnswers \cup {<<>>}

InitEval ==
  /\ HarnessIdle
  /\ ea_pc = "call"
  /\ ea_in \in [expected : EvalExpected, actual : EvalActual,
                difficulty : {"EASY", "MEDIUM", "HARD"}]
  /\ ea_out = [is_correct |-> FALSE]
  /\ ChunkIdle
  /\ OtherIdle

EvaluateAnswer ==
  /\ ea_pc = "call"
  /\ ea_out' = evaluate_answer(ea_in.expected, ea_in.actual, ea_in.difficulty)
  /\ ea_pc' = "done"
  /\ UNCHANGED <<ea_in, harnessVars, chunkVars, otherVars>>

NextEval == EvaluateAnswer

SpecEval == InitEval /\ [][NextEval]_vars


(***************************************************************************)
(* chunk_text, one step per loop iteration, and chunk_documents            *)
(***************************************************************************)
\* the pieces the texts are made of: a letter, a period, a blank and the
\* three-character literal of line 30
TextUnits == {<<"a">>, Period, <<" ">>, ChinesePeriod}

RECURSIVE TextsOf(_)
TextsOf(n) ==
  IF n = 0 THEN {<<>>}
  ELSE LET shorter == TextsOf(n - 1)
       IN shorter \cup {t \o u : t \in shorter, u \in TextUnits}

Texts == TextsOf(MaxUnits)

DocId == <<"d","1">>

DocContents ==
  { <<>>,
    <<"a","a">>,
    <<"a","."," ","a">>,
    <<" "," "," "," ">>,
    <<"a","a","a","a","a">>,
    <<".","a","a","a","a">> }

\* documents as the connector hands them over, a dict without 'id', one
\* without 'metadata', one without 'content', and a value that is no dict
Documents ==
  {PyDict([id |-> DocId, content |-> c,
           metadata |-> [source |-> "wiki", total_chunks |-> 99]]) : c \in DocContents}
  \cup {PyDict([content |-> <<"a","."," ","a">>, metadata |-> [source |-> "wiki"]]),
        PyDict([id |-> DocId, content |-> <<"a","a","a","a","a">>]),
        PyDict([id |-> DocId, metadata |-> [source |-> "wiki"]]),
        PyStr(<<"a","a","a","a","a">>)}

RECURSIVE DocumentLists(_)
DocumentLists(n) ==
  IF n = 0 THEN {<<>>}
  ELSE LET shorter == DocumentLists(n - 1)
       IN shorter \cup {l \o <<d>> : l \in shorter, d \in Documents}

InitText ==
  /\ ct_pc = "call"
  /\ ct_text \in Texts
  /\ ct_max_size \in 1..MaxSize
  /\ ct_overlap \in 0..MaxOverlap
  /\ ct_start = 0
  /\ ct_chunks = <<>>
  /\ ct_iter = 0
  /\ DocsIdle

InitDocs ==
  /\ cd_pc = "call"
  /\ cd_documents \in DocumentLists(MaxDocs)
  /\ cd_max_size \in 1..MaxSize
  /\ cd_overlap \in 0..MaxOverlap
  /\ cd_out = <<>>
  /\ TextIdle

InitChunk ==
  /\ HarnessIdle
  /\ EvalIdle
  /\ OtherIdle
  /\ (InitText \/ InitDocs)

\* lines 15-16: a text that fits is returned as the only chunk
ChunkTextShort ==
  /\ ct_pc = "call"
  /\ Len(ct_text) <= ct_max_size
  /\ ct_chunks' = <<ct_text>>
  /\ ct_pc' = "done"
  /\ UNCHANGED <<ct_text, ct_max_size, ct_overlap, ct_start, ct_iter>>
  /\ UNCHANGED <<docsVars, harnessVars, evalVars, otherVars>>

\* lines 18-19
ChunkTextEnter ==
  /\ ct_pc = "call"
  /\ ~(Len(ct_text) <= ct_max_size)
  /\ ct_chunks' = <<>>
  /\ ct_start' = 0
  /\ ct_pc' = "loop"
  /\ UNCHANGED <<ct_text, ct_max_size, ct_overlap, ct_iter>>
  /\ UNCHANGED <<docsVars, harnessVars, evalVars, otherVars>>

\* lines 21-39: one iteration of the while loop
ChunkTextIterate ==
  /\ ct_pc = "loop"
  /\ ct_start < Len(ct_text)
  /\ ct_iter < MaxIter
  /\ LET end == WindowEnd(ct_text, ct_max_size, ct_start)
     IN /\ ct_chunks' = WithChunk(ct_chunks, ct_text, ct_start, end)
        /\ ct_start' = NextStart(ct_text, ct_overlap, end)
  /\ ct_iter' = ct_iter + 1
  /\ UNCHANGED <<ct_pc, ct_text, ct_max_size, ct_overlap>>
  /\ UNCHANGED <<docsVars, harnessVars, evalVars, otherVars>>

\* line 41: the loop condition fails, chunks is returned
ChunkTextReturn ==
  /\ ct_pc = "loop"
  /\ ~(ct_start < Len(ct_text))
  /\ ct_pc' = "done"
  /\ UNCHANGED <<ct_text, ct_max_size, ct_overlap, ct_start, ct_chunks, ct_iter>>
  /\ UNCHANGED <<docsVars, harnessVars, evalVars, otherVars>>

\* lines 43-75, when every call of chunk_text returns
ChunkDocuments ==
  /\ cd_pc = "call"
  /\ \A k \in 1..Len(cd_documents) :
       ChunkReturns(cd_documents[k], cd_max_size, cd_overlap)
  /\ cd_out' = chunk_documents(cd_documents, cd_max_size, cd_overlap)
  /\ cd_pc' = "done"
  /\ UNCHANGED <<cd_documents, cd_max_size, cd_overlap>>
  /\ UNCHANGED <<textVars, harnessVars, evalVars, otherVars>>

\* chunk_text is still looping after MaxIter iterations on some document
ChunkDocumentsLoops ==
  /\ cd_pc = "call"
  /\ \E k \in 1..Len(cd_documents) :
       ~ChunkReturns(cd_documents[k], cd_max_size, cd_overlap)
  /\ cd_pc' = "looping"
  /\ UNCHANGED <<cd_documents, cd_max_size, cd_overlap, cd_out>>
  /\ UNCHANGED <<textVars, harnessVars, evalVars, otherVars>>

NextChunk ==
  \/ ChunkTextShort
  \/ ChunkTextEnter
  \/ ChunkTextIterate
  \/ ChunkTextReturn
  \/ ChunkDocuments
  \/ ChunkDocumentsLoops

SpecChunk == InitChunk /\ [][NextChunk]_vars

(***************************************************************************)
(* chunk_text on texts longer than the 200 characters of the sentence      *)
(* search, with max_size from 200 on                                       *)
(***************************************************************************)
LongSizes == SentenceMargin..(SentenceMargin + MaxExtra)

\* a text of n characters: "." at the 0-based positions of periods, " " at
\* those of blanks, "a" elsewhere
LongText(n, periods, blanks) ==
  [k \in 1..n |-> IF (k - 1) \in periods THEN "."
                  ELSE IF (k - 1) \in blanks THEN " " ELSE "a"]

LongTexts ==
  { <<"a", ".", "a">>,
    LongText(SentenceMargin + 3, {}, {}),
    LongText(SentenceMargin + 3, {0}, {}),
    LongText(SentenceMargin + 3, {1}, {0}),
    LongText(SentenceMargin + 4, {1, 150}, {151, 203}),
    LongText(SentenceMargin + 5, {2, 3}, {}),
    LongText(2 * SentenceMargin + 5, {0, 199, 200, 201, 250}, {202, 251, 252}),
    LongText(2, {0}, {}) \o ChinesePeriod \o LongText(SentenceMargin, {}, {}),
    LongText(3, {}, {}) \o ChinesePeriod \o LongText(SentenceMargin, {}, {}) }

InitLong ==
  /\ HarnessIdle
  /\ EvalIdle
  /\ OtherIdle
  /\ DocsIdle
  /\ ct_pc = "call"
  /\ ct_text \in LongTexts
  /\ ct_max_size \in LongSizes
  /\ ct_overlap \in 0..MaxOverlap
  /\ ct_start = 0
  /\ ct_chunks = <<>>
  /\ ct_iter = 0

NextLong ==
  \/ ChunkTextShort
  \/ ChunkTextEnter
  \/ ChunkTextIterate
  \/ ChunkTextReturn

SpecLong == InitLong /\ [][NextLong]_vars

(***************************************************************************)
(* VectorStore, one step per method call                                   *)
(***************************************************************************)
\* lines 19-29
create_or_get_collection(coll, backend_fails) ==
  IF backend_fails
    THEN [collection |-> coll, status |-> "raise", error |-> "BackendError"]
    ELSE [collection |-> CollectionName, status |-> "return", error |-> "none"]

\* add_documents testing for the empty list before it tests the collection
add_documents_empty_first(coll, store, documents, backend_fails) ==
  IF documents = <<>> THEN Outcome(store, "return", "none", <<>>, FALSE)
  ELSE IF coll = "None" THEN NotInitialized(store)
  ELSE IF BatchError(documents) # "none"
    THEN Outcome(store, "raise", BatchError(documents), <<>>, FALSE)
  ELSE IF backend_fails \/ BackendRejects(IdsOf(documents), ContentsOf(documents))
    THEN Outcome(store, "raise", "BackendError", <<>>, TRUE)
  ELSE Outcome(CollectionAdd(store, IdsOf(documents), ContentsOf(documents),
                             MetadatasOf(documents), 1),
               "return", "none", <<>>, TRUE)

\* add_documents adding the documents one by one: those before the first
\* malformed element are written before the error is raised
add_documents_each(coll, store, documents, backend_fails) ==
  IF coll = "None" THEN NotInitialized(store)
  ELSE IF documents = <<>> THEN Outcome(store, "return", "none", <<>>, FALSE)
  ELSE IF BatchError(documents) # "none"
    THEN LET c == FirstWithout(documents, "content", 1)
             d == FirstWithout(documents, "id", 1)
             k == IF c = 0 THEN d ELSE IF d = 0 THEN c ELSE Min2(c, d)
             good == SubSeq(documents, 1, k - 1)
         IN Outcome(CollectionAdd(store, IdsOf(good), ContentsOf(good),
                                  MetadatasOf(good), 1),
                    "raise", BatchError(documents), <<>>, k > 1)
  ELSE IF backend_fails \/ BackendRejects(IdsOf(documents), ContentsOf(documents))
    THEN Outcome(store, "raise", "BackendError", <<>>, TRUE)
  ELSE Outcome(CollectionAdd(store, IdsOf(documents), ContentsOf(documents),
                             MetadatasOf(documents), 1),
               "return", "none", <<>>, TRUE)

\* lines 31-48
add_documents(coll, store, documents, backend_fails) ==
  IF coll = "None" THEN NotInitialized(store)
  ELSE IF documents = <<>> THEN Outcome(store, "return", "none", <<>>, FALSE)
  ELSE IF BatchError(documents) # "none"
    THEN Outcome(store, "raise", BatchError(documents), <<>>, FALSE)
  ELSE IF backend_fails \/ BackendRejects(IdsOf(documents), ContentsOf(documents))
    THEN Outcome(store, "raise", "BackendError", <<>>, TRUE)
  ELSE Outcome(CollectionAdd(store, IdsOf(documents), ContentsOf(documents),
                             MetadatasOf(documents), 1),
               "return", "none", <<>>, TRUE)

\* every result with the metadata of the first hit
FormatResultsFirstMetadata(hits) ==
  [k \in 1..Len(hits.documents) |->
     [id |-> hits.ids[k],
      content |-> hits.documents[k],
      metadata |-> IF hits.metadatas # <<>> THEN hits.metadatas[1] ELSE EmptyDict,
      distance |-> hits.distances[k]]]

\* lines 61-69: one formatted result per entry of results['documents'][0]
FormatResults(hits) ==
  [k \in 1..Len(hits.documents) |->
     [id |-> hits.ids[k],
      content |-> hits.documents[k],
      metadata |-> IF hits.metadatas # <<>> THEN hits.metadatas[k] ELSE EmptyDict,
      distance |-> hits.distances[k]]]

\* collection.query for one query text: the records named by ranking, the
\* nearest first, with their distances
CollectionQuery(store, ranking, distances) ==
  [ids |-> ranking,
   documents |-> [k \in 1..Len(ranking) |-> store[ranking[k]].content],
   metadatas |-> [k \in 1..Len(ranking) |-> store[ranking[k]].metadata],
   distances |-> distances]

\* lines 50-75
search(coll, store, ranking, distances, backend_fails) ==
  IF coll = "None" THEN NotInitialized(store)
  ELSE IF backend_fails THEN Outcome(store, "raise", "BackendError", <<>>, TRUE)
  ELSE Outcome(store, "return", "none",
               FormatResults(CollectionQuery(store, ranking, distances)), TRUE)

\* lines 77-86
delete_documents(coll, store, ids, backend_fails) ==
  IF coll = "None" THEN NotInitialized(store)
  ELSE IF backend_fails THEN Outcome(store, "raise", "BackendError", <<>>, TRUE)
  ELSE Outcome(CollectionDelete(store, ids), "return", "none", <<>>, TRUE)

\* lines 88-105
update_documents(coll, store, documents, backend_fails) ==
  IF coll = "None" THEN NotInitialized(store)
  ELSE IF documents = <<>> THEN Outcome(store, "return", "none", <<>>, FALSE)
  ELSE IF BatchError(documents) # "none"
    THEN Outcome(store, "raise", BatchError(documents), <<>>, FALSE)
  ELSE IF backend_fails \/ BackendRejects(IdsOf(documents), ContentsOf(documents))
    THEN Outcome(store, "raise", "BackendError", <<>>, TRUE)
  ELSE Outcome(CollectionUpdate(store, IdsOf(documents), ContentsOf(documents),
                                MetadatasOf(documents), 1),
               "return", "none", <<>>, TRUE)

\* lines 107-120
get_collection_info(coll, store, backend_fails) ==
  IF coll = "None" THEN NotInitialized(store)
  ELSE IF backend_fails THEN Outcome(store, "raise", "BackendError", <<>>, TRUE)
  ELSE Outcome(store, "return", "none",
               [name |-> CollectionName,
                count |-> CollectionCount(store),
                metadata |-> CollectionMetadata],
               TRUE)

\* the lists of at most n elements of S
RECURSIVE ListsOf(_, _)
ListsOf(S, n) ==
  IF n = 0 THEN {<<>>}
  ELSE LET shorter == ListsOf(S, n - 1)
       IN shorter \cup {l \o <<e>> : l \in shorter, e \in S}

Id_a == <<"a">>

Id_b == <<"b">>

\* documents handed to the store: well-formed ones, one without 'id' and
\* one without 'content'
StoreDocs ==
  { PyDict([id |-> PyStr(Id_a), content |-> PyStr(<<"x">>)]),
    PyDict([id |-> PyStr(Id_a), content |-> PyStr(<<"y">>), metadata |-> [rev |-> 2]]),
    PyDict([id |-> PyStr(Id_b), content |-> PyStr(<<"x">>), metadata |-> [rev |-> 1]]),
    PyDict([content |-> PyStr(<<"x">>)]),
    PyDict([id |-> PyStr(Id_b)]) }

DocumentBatches == ListsOf(StoreDocs, MaxBatch)

IdLists == ListsOf({Id_a, Id_b}, MaxBatch)

\* the answers of the backend to a query for n_results records: the
\* nearest records it holds, each once
Rankings(store, n_results) ==
  {r \in ListsOf(DOMAIN store, Min2(n_results, CollectionCount(store))) :
     /\ Len(r) = Min2(n_results, CollectionCount(store))
     /\ \A j, k \in 1..Len(r) : j # k => r[j] # r[k]}

\* the where filters used: none, or one metadata constraint
Filters == {EmptyDict, [rev |-> 1]}

\* the records whose metadata meets every constraint of where
Matching(store, where) ==
  [key \in {c \in DOMAIN store :
              \A f \in DOMAIN where :
                /\ f \in DOMAIN store[c].metadata
                /\ store[c].metadata[f] = where[f]} |-> store[key]]

DistanceValues == {0, 1, 2}

\* the distances the backend reports for n hits: n values, never decreasing
DistanceLists(n) ==
  {l \in ListsOf(DistanceValues, n) :
     /\ Len(l) = n
     /\ \A k \in 1..(n - 1) : l[k] <= l[k + 1]}

\* the persist directory is empty or holds a collection written earlier
InitialDbs ==
  {EmptyDict, Id_a :> [content |-> <<"x">>, metadata |-> EmptyDict]}

InitStore ==
  /\ HarnessIdle
  /\ EvalIdle
  /\ ChunkIdle
  /\ IngestIdle
  /\ AgentIdle
  /\ RunIdle
  /\ collection = "None"
  /\ db \in InitialDbs
  /\ db_before = db
  /\ vs_out = NoCall

\* the call op(args) ended as out says
Called(op, args, backend_fails, out) ==
  /\ vs_out' = [op |-> op, args |-> args, backend_fails |-> backend_fails,
                status |-> out.status, error |-> out.error,
                value |-> out.value, backend_called |-> out.backend_called]
  /\ db' = out.db
  /\ db_before' = db

CreateOrGetCollection ==
  /\ \E backend_fails \in BOOLEAN :
       LET r == create_or_get_collection(collection, backend_fails)
       IN /\ collection' = r.collection
          /\ Called("create_or_get_collection", <<>>, backend_fails,
                    Outcome(db, r.status, r.error, <<>>, TRUE))
  /\ UNCHANGED <<harnessVars, evalVars, chunkVars, ingestVars, agentVars, runVars>>

AddDocuments ==
  /\ \E documents \in DocumentBatches, backend_fails \in BOOLEAN :
       Called("add_documents", documents, backend_fails,
              add_documents(collection, db, documents, backend_fails))
  /\ UNCHANGED <<collection, harnessVars, evalVars, chunkVars, ingestVars, agentVars, runVars>>

Search ==
  /\ \E n_results \in 1..MaxResults, where \in Filters, backend_fails \in BOOLEAN :
       \E ranking \in Rankings(Matching(db, where), n_results) :
         \E distances \in DistanceLists(Len(ranking)) :
           Called("search", [n_results |-> n_results, where |-> where],
                  backend_fails,
                  search(collection, db, ranking, distances, backend_fails))
  /\ UNCHANGED <<collection, harnessVars, evalVars, chunkVars, ingestVars, agentVars, runVars>>

DeleteDocuments ==
  /\ \E ids \in IdLists, backend_fails \in BOOLEAN :
       Called("delete_documents", ids, backend_fails,
              delete_documents(collection, db, ids, backend_fails))
  /\ UNCHANGED <<collection, harnessVars, evalVars, chunkVars, ingestVars, agentVars, runVars>>

UpdateDocuments ==
  /\ \E documents \in DocumentBatches, backend_fails \in BOOLEAN :
       Called("update_documents", documents, backend_fails,
              update_documents(collection, db, documents, backend_fails))
  /\ UNCHANGED <<collection, harnessVars, evalVars, chunkVars, ingestVars, agentVars, runVars>>

GetCollectionInfo ==
  /\ \E backend_fails \in BOOLEAN :
       Called("get_collection_info", <<>>, backend_fails,
              get_collection_info(collection, db, backend_fails))
  /\ UNCHANGED <<collection, harnessVars, evalVars, chunkVars, ingestVars, agentVars, runVars>>

NextStore ==
  \/ CreateOrGetCollection
  \/ AddDocuments
  \/ Search
  \/ DeleteDocuments
  \/ UpdateDocuments
  \/ GetCollectionInfo

SpecStore == InitStore /\ [][NextStore]_vars

(***************************************************************************)
(* Properties of the benchmark harness                                     *)
(***************************************************************************)
IsErrorResult(r, e) ==
  /\ r.is_correct = FALSE
  /\ r.confidence_score = Zero
  /\ r.evaluation_notes.prefix = "System error: "
  /\ r.evaluation_notes.text = e

\* C1: a call of the system under test that raises does not abort the run:
\* the step that handles it appends one EvaluationResult with
\* is_correct = FALSE, confidence_score = 0 and the error text in the notes,
\* and goes on with the next case (or the report); the report that is
\* returned has total_cases = number of test cases.
C1_ErrorsAreRecorded ==
  [][ /\ (pc = "returned" /\ response.kind = "raise") =>
           /\ Len(results') = Len(results) + 1
           /\ SubSeq(results', 1, Len(results)) = results
           /\ IsErrorResult(results'[Len(results')], response.value)
           /\ results'[Len(results')].query = test_cases[i].query
           /\ pc' = IF i < Len(test_cases) THEN "case" ELSE "report"
      /\ pc' = "done" => report'.total_cases = Len(test_cases')
    ]_vars

\* C1 witness: a finished run in which a case whose call raised is followed
\* by a case that was answered correctly
C1_Witness ==
  /\ pc = "done"
  /\ report.total_cases = Len(test_cases)
  /\ \E k \in 1..Len(results) : \E m \in 1..Len(results) :
       /\ k < m
       /\ IsErrorResult(results[k], BoomMessage)
       /\ results[m].is_correct

\* C2: the cases are handled one at a time in test-case order: while the
\* call for case i is pending or being made, exactly the results of cases
\* 1..i-1 are recorded; result k always belongs to test case k; when the
\* loop has ended there is exactly one result per test case.
C2_OneCaseAtATime ==
  /\ pc \in {"case", "returned"} => (i <= Len(test_cases) /\ Len(results) = i - 1)
  /\ pc \in {"report", "done"} => Len(results) = Len(test_cases)
  /\ Len(results) <= Len(test_cases)
  /\ \A k \in 1..Len(results) : results[k].query = test_cases[k].query

\* C2 witness: the call for the third case is pending with two results
\* recorded, the first of them a captured error
C2_Witness ==
  /\ pc = "returned"
  /\ i = 3
  /\ Len(results) = 2
  /\ results[1].evaluation_notes.prefix = "System error: "
  /\ results[2].evaluation_notes.prefix = "Key terms found: "

RECURSIVE MissedCriticalFrom(_)
MissedCriticalFrom(k) ==
  IF k > Len(test_cases) THEN <<>>
  ELSE (IF test_cases[k].importance = "CRITICAL" /\ ~results[k].is_correct
          THEN <<test_cases[k].query>> ELSE <<>>)
       \o MissedCriticalFrom(k + 1)

\* C4: critical_misses of the report is exactly the list of the queries of
\* the CRITICAL test cases whose result in this run is incorrect, in
\* test-case order.
C4_CriticalMisses ==
  pc = "done" => report.critical_misses = MissedCriticalFrom(1)

\* C4 witness: of two CRITICAL cases the first was answered correctly and
\* the second ended in a captured error; only the second is listed
C4_Witness ==
  /\ pc = "done"
  /\ \E k \in 1..Len(results) : \E m \in 1..Len(results) :
       /\ k < m
       /\ test_cases[k].importance = "CRITICAL" /\ results[k].is_correct
       /\ test_cases[m].importance = "CRITICAL"
       /\ results[m].evaluation_notes.prefix = "System error: "
       /\ report.critical_misses = <<test_cases[m].query>>

\* C5: accuracy_by_difficulty has exactly the keys EASY, MEDIUM and HARD;
\* each value is correct / total over the results of that difficulty, and
\* 0.0 for a difficulty without results.
C5_AccuracyByDifficulty ==
  pc = "done" =>
    /\ DOMAIN report.accuracy_by_difficulty = {"EASY", "MEDIUM", "HARD"}
    /\ \A d \in {"EASY", "MEDIUM", "HARD"} :
         LET of_d == {k \in 1..Len(results) : results[k].difficulty = d}
             right == {k \in of_d : results[k].is_correct}
             acc == report.accuracy_by_difficulty[d]
         IN /\ acc[2] > 0
            /\ of_d = {} => acc = Zero
            /\ of_d # {} => acc[1] * Cardinality(of_d) = Cardinality(right) * acc[2]

\* C5 witness: 2 EASY results with 1 correct and 1 MEDIUM result with 0
\* correct give EASY 0.5, MEDIUM 0.0 and HARD 0.0
C5_Witness ==
  /\ pc = "done"
  /\ Len(results) = 3
  /\ Cardinality({k \in 1..3 : results[k].difficulty = "EASY"}) = 2
  /\ Cardinality({k \in 1..3 : results[k].difficulty = "EASY" /\ results[k].is_correct}) = 1
  /\ report.accuracy_by_difficulty["EASY"] = <<1, 2>>
  /\ report.accuracy_by_difficulty["MEDIUM"] = <<0, 1>>
  /\ report.accuracy_by_difficulty["HARD"] = <<0, 1>>

\* C6: a system under test with neither ask nor query is a configuration
\* error of the run: it is never recorded as a failed EvaluationResult of
\* a test case.
C6_NoMethodIsConfigurationError ==
  rag_system = "neither" => results = <<>>


(***************************************************************************)
(* Properties of the chunker                                               *)
(***************************************************************************)
\* C7: with 0 <= overlap < max_size every loop iteration of chunk_text on a
\* text longer than max_size sets start to a strictly greater value.
C7_ForwardProgress ==
  [][ (ct_pc = "loop" /\ ct_pc' = "loop" /\ ct_overlap < ct_max_size)
        => ct_start' > ct_start ]_vars

\* s without its first n characters
DropFirst(s, n) == SubStr(s, IF n > Len(s) THEN Len(s) ELSE n, Len(s))

\* the chunks joined in order, each but the first without its first
\* overlap characters
RECURSIVE JoinWithoutOverlap(_, _, _)
JoinWithoutOverlap(chunks, overlap, k) ==
  IF k > Len(chunks) THEN <<>>
  ELSE (IF k = 1 THEN chunks[1] ELSE DropFirst(chunks[k], overlap))
       \o JoinWithoutOverlap(chunks, overlap, k + 1)

\* trimming removes nothing from any window of a text without whitespace
NoWhitespace(s) == \A k \in 1..Len(s) : s[k] \notin WhitespaceChars

\* C8: for a text longer than max_size the returned chunks, joined in order
\* after removing the overlap-sized repeated region from each chunk but the
\* first, give back the text exactly.  Stated for the texts without
\* whitespace and for overlap < max_size, where the claim already fails.
C8_ChunksLoseNothing ==
  (/\ ct_pc = "done"
   /\ Len(ct_text) > ct_max_size
   /\ ct_overlap < ct_max_size
   /\ NoWhitespace(ct_text))
    => JoinWithoutOverlap(ct_chunks, ct_overlap, 1) = ct_text

\* a document that chunk_documents hands to chunk_text
IsSplit(doc) == HasContent(doc) /\ Len(doc.value.content) > cd_max_size

\* number of records document k contributes to the output, and the number
\* of output records that precede them
BlockLen(k) == Len(ChunkOneDocument(cd_documents[k], cd_max_size, cd_overlap))

RECURSIVE BlockOffset(_)
BlockOffset(k) == IF k = 1 THEN 0 ELSE BlockOffset(k - 1) + BlockLen(k - 1)

\* C9: the n Chunk records of a split document carry chunk_index 0..n-1 in
\* output order, total_chunks = n, original_id = the document id and
\* id = "{document_id}_chunk_{chunk_index}".
C9_ChunkRecords ==
  cd_pc = "done" =>
    \A k \in 1..Len(cd_documents) :
      IsSplit(cd_documents[k]) =>
        LET doc == cd_documents[k]
            doc_id == IF "id" \in DOMAIN doc.value THEN doc.value.id ELSE S_doc
            n == BlockLen(k)
        IN \A j \in 1..n :
             LET rec == cd_out[BlockOffset(k) + j].value
             IN /\ rec.metadata.chunk_index = j - 1
                /\ rec.metadata.total_chunks = n
                /\ rec.metadata.original_id = doc_id
                /\ rec.id = doc_id \o S_chunk \o <<DigitChars[j]>>

\* C9 witness: a document that passes through is followed by a document
\* that is split into at least two Chunk records
C9_Witness ==
  /\ cd_pc = "done"
  /\ Len(cd_documents) = 2
  /\ ~IsSplit(cd_documents[1])
  /\ IsSplit(cd_documents[2])
  /\ Len(cd_out) >= 3
  /\ cd_out[3].value.metadata.chunk_index = 1

\* a document chunk_documents must hand on as it is
PassesThrough(doc) ==
  \/ doc.type # "dict"
  \/ "content" \notin DOMAIN doc.value
  \/ Len(doc.value.content) <= cd_max_size

\* C10: chunk_text returns [text] when len(text) <= max_size, and
\* chunk_documents hands on unchanged, at its place in the output, every
\* document whose content is at most max_size long or that has no content;
\* chunk_documents([D]) = [D] for such a D.
C10_IdentityPassThrough ==
  /\ (ct_pc = "done" /\ Len(ct_text) <= ct_max_size) => ct_chunks = <<ct_text>>
  /\ cd_pc = "done" =>
       /\ \A k \in 1..Len(cd_documents) :
            PassesThrough(cd_documents[k]) =>
              /\ BlockOffset(k) + 1 <= Len(cd_out)
              /\ cd_out[BlockOffset(k) + 1] = cd_documents[k]
              /\ (k < Len(cd_documents) => BlockOffset(k + 1) = BlockOffset(k) + 1)
       /\ (\A k \in 1..Len(cd_documents) : PassesThrough(cd_documents[k]))
            => cd_out = cd_documents

\* C10 witness: a single document whose content is exactly max_size long
\* comes back as the only element of the output
C10_Witness ==
  /\ cd_pc = "done"
  /\ Len(cd_documents) = 1
  /\ HasContent(cd_documents[1])
  /\ Len(cd_documents[1].value.content) = cd_max_size
  /\ cd_out = cd_documents

\* C11: every string chunk_text returns, for any text, max_size >= 1 and
\* overlap >= 0, is at most max_size characters long.
C11_ChunksAreSizeBounded ==
  ct_pc = "done" =>
    \A k \in 1..Len(ct_chunks) : Len(ct_chunks[k]) <= ct_max_size

\* C11 witness: a text longer than max_size came back as several chunks,
\* one of them exactly max_size long
C11_Witness ==
  /\ ct_pc = "done"
  /\ Len(ct_text) > ct_max_size
  /\ Len(ct_chunks) >= 2
  /\ \E k \in 1..Len(ct_chunks) : Len(ct_chunks[k]) = ct_max_size

\* a str that is not empty and neither starts nor ends with whitespace
IsTrimmed(s) ==
  /\ s # <<>>
  /\ s[1] \notin WhitespaceChars
  /\ s[Len(s)] \notin WhitespaceChars

\* C12: every string chunk_text returns for a text longer than max_size and
\* the content of every Chunk record chunk_documents emits is non-empty and
\* has no leading or trailing whitespace; a loop iteration whose window is
\* empty after trimming appends no chunk.
C12_NoEmptyChunk ==
  /\ [] ((ct_pc = "done" /\ Len(ct_text) > ct_max_size) =>
           \A k \in 1..Len(ct_chunks) : IsTrimmed(ct_chunks[k]))
  /\ [] (cd_pc = "done" =>
           \A k \in 1..Len(cd_documents) :
             IsSplit(cd_documents[k]) =>
               \A j \in 1..BlockLen(k) :
                 IsTrimmed(cd_out[BlockOffset(k) + j].value.content))
  /\ [][ (/\ ct_pc = "loop"
          /\ ct_iter' = ct_iter + 1
          /\ Strip(Slice(ct_text, ct_start,
                         WindowEnd(ct_text, ct_max_size, ct_start))) = <<>>)
           => ct_chunks' = ct_chunks ]_vars

\* C12 witness: chunk_text returned after an iteration whose window held
\* only whitespace, with a chunk that lost whitespace to trimming
C12_Witness ==
  /\ ct_pc = "done"
  /\ Len(ct_text) > ct_max_size
  /\ ct_overlap = 0
  /\ Len(ct_chunks) >= 1
  /\ ct_iter > Len(ct_chunks)
  /\ \E k \in 1..Len(ct_text) : ct_text[k] \in WhitespaceChars
  /\ \E k \in 1..Len(ct_chunks) : Len(ct_chunks[k]) < ct_max_size

(***************************************************************************)
(* JSONToVectorConverter (json_to_vector.py)                               *)
(***************************************************************************)
\* lines 92-106: "True", "False", or the exception that strip() raises on a
\* content that is not a str
RECURSIVE ValidateFrom(_, _)
ValidateFrom(documents, k) ==
  IF k > Len(documents) THEN "True"
  ELSE LET doc == documents[k]
       IN IF doc.type # "dict" THEN "False"
          ELSE IF ~HasKey(doc, "id") \/ ~HasKey(doc, "content") THEN "False"
          ELSE IF doc.value.content.type # "str" THEN "AttributeError"
          ELSE ValidateFrom(documents, k + 1)

validate_document_format(documents) == ValidateFrom(documents, 1)

\* how a call of convert_and_store ends: by return or raise, its return
\* value, the collection afterwards, what validation said, and how the call
\* of add_documents ended ("not called", "return" or "raise")
Converted(status, returned, store, validated, added) ==
  [status |-> status, returned |-> returned, db |-> store,
   validated |-> validated, added |-> added,
   add_called |-> added # "not called"]

\* lines 120-151, the body of the try.  loaded is what load_json_file
\* finds; fail_at names the backend call that raises, if any; an exception
\* that get_collection_info raises in the clear step is caught there
\* (lines 134-141)
ConvertBody(store, loaded, clear_existing, fail_at) ==
  IF fail_at = "init" THEN Converted("raise", FALSE, store, "not called", "not called")
  ELSE IF loaded.kind # "list" THEN Converted("raise", FALSE, store, "not called", "not called")
  ELSE LET documents == loaded.value
           validated == validate_document_format(documents)
           added == add_documents(CollectionName, store, documents, fail_at = "add")
       IN IF validated = "False"
            THEN Converted("return", FALSE, store, validated, "not called")
          ELSE IF validated # "True"
            THEN Converted("raise", FALSE, store, validated, "not called")
          ELSE IF added.status = "raise"
            THEN Converted("raise", FALSE, added.db, validated, "raise")
          ELSE IF get_collection_info(CollectionName, added.db,
                                      fail_at = "verify").status = "raise"
            THEN Converted("raise", FALSE, added.db, validated, "return")
          ELSE Converted("return", TRUE, added.db, validated, "return")

\* the body without the except clause of lines 153-155
convert_and_store_uncaught(store, loaded, clear_existing, fail_at) ==
  ConvertBody(store, loaded, clear_existing, fail_at)

\* lines 119-156: except Exception returns False
convert_and_store(store, loaded, clear_existing, fail_at) ==
  LET body == ConvertBody(store, loaded, clear_existing, fail_at)
  IN IF body.status = "raise"
       THEN [body EXCEPT !.status = "return", !.returned = FALSE]
       ELSE body

\* elements of a loaded JSON list: well-formed documents, a str, documents
\* without 'id' or 'content', with an empty or non-str id, with a blank or
\* null content
IngestDocs ==
  { PyDict([id |-> PyStr(Id_a), content |-> PyStr(<<"x">>)]),
    PyDict([id |-> PyStr(Id_a), content |-> PyStr(<<"y">>), metadata |-> [rev |-> 2]]),
    PyDict([id |-> PyStr(Id_b), content |-> PyStr(<<"x">>), metadata |-> [rev |-> 1]]),
    PyStr(<<"x">>),
    PyDict([content |-> PyStr(<<"x">>)]),
    PyDict([id |-> PyStr(Id_b)]),
    PyDict([id |-> PyStr(<<>>), content |-> PyStr(<<"x">>)]),
    PyDict([id |-> PyInt(7), content |-> PyStr(<<"x">>)]),
    PyDict([id |-> PyStr(Id_b), content |-> PyStr(<<" ">>)]),
    PyDict([id |-> PyStr(Id_b), content |-> PyNone]) }

\* what load_json_file can meet
LoadedFiles ==
  {[kind |-> "list", value |-> l] : l \in ListsOf(IngestDocs, MaxLoaded)}
  \cup {[kind |-> "not_list", value |-> <<>>], [kind |-> "unreadable", value |-> <<>>]}

\* the backend call of convert_and_store that raises
FailurePoints == {"none", "init", "clear", "add", "verify"}

InitIngest ==
  /\ HarnessIdle
  /\ EvalIdle
  /\ ChunkIdle
  /\ AgentIdle
  /\ RunIdle
  /\ collection = "None"
  /\ vs_out = NoCall
  /\ db \in InitialDbs
  /\ db_before = db
  /\ cs_pc = "call"
  /\ cs_out = NoCall

ConvertAndStore ==
  /\ cs_pc = "call"
  /\ \E loaded \in LoadedFiles, clear_existing \in BOOLEAN, fail_at \in FailurePoints :
       LET r == convert_and_store(db, loaded, clear_existing, fail_at)
       IN /\ cs_out' = [op |-> "convert_and_store", loaded |-> loaded,
                        clear_existing |-> clear_existing, fail_at |-> fail_at,
                        status |-> r.status, returned |-> r.returned,
                        validated |-> r.validated, added |-> r.added,
                        add_called |-> r.add_called]
          /\ db' = r.db
  /\ db_before' = db
  /\ cs_pc' = "done"
  /\ UNCHANGED <<collection, vs_out, harnessVars, evalVars, chunkVars, agentVars, runVars>>

NextIngest == ConvertAndStore

SpecIngest == InitIngest /\ [][NextIngest]_vars

(***************************************************************************)
(* QAAgent.ask (qa_agent.py) and chat_endpoint (web_app.py)                *)
(***************************************************************************)
\* metadata.get(key, default)
MetaGet(metadata, key, default) ==
  IF key \in DOMAIN metadata THEN metadata[key] ELSE default

\* lines 71-75: the retrieved_context entry of document number idx (0-based)
ContextOf(doc, idx) ==
  [chunk_id |-> idx + 1,
   content |-> doc.page_content,
   relevance_score |-> doc.relevance_score]

\* lines 78-84: its evidence entry
EvidenceOf(doc, idx) ==
  [source_id |-> idx + 1,
   source |-> MetaGet(doc.metadata, "source", "Unknown"),
   page |-> MetaGet(doc.metadata, "page", "None"),
   chunk_size |-> Len(doc.page_content)]

\* lines 66-84: the two lists built by the loop over source_documents
RetrievedContext(source_documents) ==
  [k \in 1..Len(source_documents) |-> ContextOf(source_documents[k], k - 1)]

\* an evidence list that cites only the documents that name their source
RECURSIVE EvidenceWithSourceOnly(_)
EvidenceWithSourceOnly(source_documents) ==
  IF source_documents = <<>> THEN <<>>
  ELSE LET n == Len(source_documents)
           front == EvidenceWithSourceOnly(SubSeq(source_documents, 1, n - 1))
       IN IF "source" \in DOMAIN source_documents[n].metadata
            THEN Append(front, EvidenceOf(source_documents[n], n - 1))
            ELSE front

Evidence(source_documents) ==
  [k \in 1..Len(source_documents) |-> EvidenceOf(source_documents[k], k - 1)]

\* lines 60-92.  chain is what qa_chain.invoke does with the question: it
\* raises, or returns a result with or without 'source_documents'
ask(question, chain, now) ==
  IF chain.status = "raise"
    THEN [status |-> "raise", error |-> chain.error, invoked |-> TRUE,
          value |-> <<>>]
    ELSE LET source_documents == IF chain.has_sources THEN chain.source_documents
                                 ELSE <<>>
         IN [status |-> "return", error |-> "none", invoked |-> TRUE,
             value |-> [question |-> question,
                        answer |-> chain.result,
                        retrieved_context |-> RetrievedContext(source_documents),
                        evidence |-> Evidence(source_documents),
                        timestamp |-> now]]

\* web_app.py lines 95-114
chat_endpoint(message, agent, chain, now) ==
  LET stripped == Strip(message)
      result == ask(stripped, chain, now)
  IN IF agent = "None"
       THEN [response |-> [kind |-> "unavailable", text |-> <<>>],
             asked |-> FALSE, result |-> NoCall]
     ELSE IF result.status = "raise"
       THEN [response |-> [kind |-> "error", text |-> result.error],
             asked |-> TRUE, result |-> result]
     ELSE [response |-> [kind |-> "answer", text |-> result.value.answer],
           asked |-> TRUE, result |-> result]

Questions == {<<>>, <<" ", "\n">>, <<" ", "q", "?", " ">>}

\* documents the retriever can hand back
SourceDocuments ==
  { [page_content |-> <<"a", "b">>, metadata |-> [source |-> "s1", page |-> "1"],
     relevance_score |-> "None"],
    [page_content |-> <<"c">>, metadata |-> [source |-> "s2"],
     relevance_score |-> "None"],
    [page_content |-> <<>>, metadata |-> EmptyDict, relevance_score |-> "0.5"] }

ChainAnswers == {"Information not available"}

ChainOutcomes ==
  {[status |-> "return", error |-> "none", result |-> a, has_sources |-> TRUE,
    source_documents |-> l] : a \in ChainAnswers,
                              l \in ListsOf(SourceDocuments, MaxSources)}
  \cup {[status |-> "return", error |-> "none", result |-> a, has_sources |-> FALSE,
         source_documents |-> <<>>] : a \in ChainAnswers}
  \cup {[status |-> "raise", error |-> "ConnectionError", result |-> "",
         has_sources |-> FALSE, source_documents |-> <<>>]}

InitAgent ==
  /\ HarnessIdle
  /\ EvalIdle
  /\ ChunkIdle
  /\ StoreIdle
  /\ IngestIdle
  /\ RunIdle
  /\ qa_agent \in {"None", "QAAgent"}
  /\ qa_out = NoCall
  /\ chat_out = NoCall

\* a direct call of QAAgent.ask
Ask ==
  /\ qa_agent # "None"
  /\ \E question \in Questions, chain \in ChainOutcomes, now \in 0..MaxClock :
       qa_out' = [op |-> "ask", question |-> question, chain |-> chain,
                  out |-> ask(question, chain, now)]
  /\ UNCHANGED <<qa_agent, chat_out>>
  /\ UNCHANGED <<harnessVars, evalVars, chunkVars, storeVars, ingestVars, runVars>>

\* a POST to /chat
ChatEndpoint ==
  /\ \E message \in Questions, chain \in ChainOutcomes, now \in 0..MaxClock :
       LET r == chat_endpoint(message, qa_agent, chain, now)
       IN /\ chat_out' = [op |-> "chat", message |-> message,
                          response |-> r.response]
          /\ qa_out' = IF r.asked
                         THEN [op |-> "ask", question |-> Strip(message),
                               chain |-> chain, out |-> r.result]
                         ELSE qa_out
  /\ UNCHANGED qa_agent
  /\ UNCHANGED <<harnessVars, evalVars, chunkVars, storeVars, ingestVars, runVars>>

NextAgent ==
  \/ Ask
  \/ ChatEndpoint

SpecAgent == InitAgent /\ [][NextAgent]_vars

(***************************************************************************)
(* evaluate_rag_system called twice on one harness, against a system whose *)
(* ask is a function of the query; then _generate_report called once more  *)
(* on the results of the second run                                        *)
(***************************************************************************)
Queries == {create_test_cases[k].query : k \in 1..Len(create_test_cases)}

QueryIndex(q) ==
  CHOOSE k \in 1..Len(create_test_cases) : create_test_cases[k].query = q

\* what such a system answers to a query
PureOutcomes ==
  { [kind |-> "object",
     value |-> <<"I","t"," ","c","o","n","s","u","m","e","s"," ","f","r","o","m"," ","t","h","e"," ","n","e","w","-","o","r","d","e","r","s"," ","t","o","p","i","c",".">>],
    [kind |-> "dict", value |-> <<"L","e","g","a","c","y"," ","p","a","y","m","e","n","t">>],
    [kind |-> "dict_answer_none", value |-> <<>>],
    [kind |-> "raise", value |-> BoomMessage] }

PureSystems ==
  { [q \in Queries |-> IF QueryIndex(q) % 2 = 1 THEN odd ELSE even] :
      odd \in PureOutcomes, even \in PureOutcomes }

\* is_correct and confidence_score of each result, as the caller reads them
ScoresOf(rs) ==
  [k \in 1..Len(rs) |-> [is_correct |-> rs[k].is_correct,
                         confidence_score |-> rs[k].confidence_score]]

InitTwice ==
  /\ test_cases \in TestCaseLists
  /\ rag_system = "ask"
  /\ system_name = "Unknown"
  /\ pc = "idle"
  /\ i = 0
  /\ response = NoResponse
  /\ results = <<>>
  /\ report = NoReport
  /\ EvalIdle
  /\ ChunkIdle
  /\ StoreIdle
  /\ IngestIdle
  /\ AgentIdle
  /\ run = 1
  /\ ask_fn \in PureSystems
  /\ first_scores = <<>>
  /\ report2 = NoReport
  /\ self_results = <<>>
  /\ results_file = NoFile

\* lines 312-313: ask is called with the query of case i
CallPureAsk ==
  /\ pc = "case"
  /\ response' = ask_fn[test_cases[i].query]
  /\ pc' = "returned"
  /\ UNCHANGED <<test_cases, rag_system, system_name, i, results, report, evalVars, chunkVars, otherVars>>

\* the caller reads the report of the first run and calls
\* evaluate_rag_system again
RunAgain ==
  /\ pc = "done"
  /\ run = 1
  /\ first_scores' = ScoresOf(results)
  /\ run' = 2
  /\ report' = NoReport
  /\ pc' = "idle"
  /\ UNCHANGED <<test_cases, rag_system, system_name, i, response, results>>
  /\ UNCHANGED <<ask_fn, report2, self_results, results_file>>
  /\ UNCHANGED <<evalVars, chunkVars, storeVars, ingestVars, agentVars>>

\* _generate_report called once more on the same results, not earlier than
\* the call made by evaluate_rag_system
GenerateAgain ==
  /\ pc = "done"
  /\ run = 2
  /\ \E now \in report.evaluation_timestamp..MaxClock :
       report2' = generate_report(test_cases, results, system_name, now)
  /\ pc' = "regenerated"
  /\ UNCHANGED <<test_cases, rag_system, system_name, i, response, results, report>>
  /\ UNCHANGED <<run, ask_fn, first_scores, self_results, results_file>>
  /\ UNCHANGED <<evalVars, chunkVars, storeVars, ingestVars, agentVars>>

\* benchmark_system.py lines 486-502; asdict keeps every field of a result
\* and of a test case
save_detailed_results(rs, tcs, now) ==
  [evaluation_metadata |-> [timestamp |-> now,
                            total_cases |-> Len(rs),
                            framework_version |-> "1.0"],
   results |-> rs,
   test_cases |-> tcs]

\* run_benchmark.py lines 88-93 and 102-107: right after evaluate_rag_system
\* has returned, the caller saves [result for result in benchmark.results
\* if result]; an EvaluationResult is always truthy
SaveDetailedResults ==
  /\ pc = "done"
  /\ results_file.run # run
  /\ \E now \in report.evaluation_timestamp..MaxClock :
       results_file' = [run |-> run,
                        data |-> save_detailed_results(self_results, test_cases, now)]
  /\ UNCHANGED <<harnessVars, run, ask_fn, first_scores, report2, self_results>>
  /\ UNCHANGED <<evalVars, chunkVars, storeVars, ingestVars, agentVars>>

NextTwice ==
  \/ EvaluateStart
  \/ CallPureAsk
  \/ RecordResult
  \/ RecordError
  \/ ReturnReport
  \/ SaveDetailedResults
  \/ RunAgain
  \/ GenerateAgain

SpecTwice == InitTwice /\ [][NextTwice]_vars

(***************************************************************************)
(* Properties of the vector store                                          *)
(***************************************************************************)
GuardedOps ==
  {"add_documents", "search", "delete_documents", "update_documents",
   "get_collection_info"}

\* C13: while create_or_get_collection has not succeeded, add_documents,
\* search, delete_documents, update_documents and get_collection_info raise
\* the not-initialized error without calling the backend and change neither
\* the store nor the collection, whatever their argument (empty list too).
C13_NotInitialized ==
  (collection = "None" /\ vs_out.op \in GuardedOps) =>
    /\ vs_out.status = "raise"
    /\ vs_out.error = S_NotInitialized
    /\ ~vs_out.backend_called
    /\ db = db_before

\* C13 witness: add_documents([]) was called on a store without collection
\* whose persist directory holds a record
C13_Witness ==
  /\ collection = "None"
  /\ vs_out.op = "add_documents"
  /\ vs_out.args = <<>>
  /\ vs_out.status = "raise"
  /\ db # EmptyDict

\* C14: add_documents of one record whose id the collection holds already,
\* with a different content, leaves the record of that id with the new
\* content and metadata, and the count is as before the write.
C14_UpsertReplaces ==
  (/\ vs_out.op = "add_documents"
   /\ vs_out.status = "return"
   /\ Len(vs_out.args) = 1
   /\ vs_out.args[1].value.id.value \in DOMAIN db_before
   /\ db_before[vs_out.args[1].value.id.value].content
        # vs_out.args[1].value.content.value)
    => LET doc == vs_out.args[1]
           key == doc.value.id.value
       IN /\ key \in DOMAIN db
          /\ db[key].content = doc.value.content.value
          /\ db[key].metadata = Get(doc, "metadata", EmptyDict)
          /\ CollectionCount(db) = CollectionCount(db_before)

WriteOps == {"add_documents", "update_documents", "delete_documents"}

\* the call met an element without 'id' or 'content'
ElementFailed ==
  /\ vs_out.op \in {"add_documents", "update_documents"}
  /\ collection # "None"
  /\ vs_out.args # <<>>
  /\ BatchError(vs_out.args) # "none"

\* the call reached the backend and the backend raised
BackendFailed ==
  /\ vs_out.backend_called
  /\ \/ vs_out.backend_fails
     \/ /\ vs_out.op \in {"add_documents", "update_documents"}
        /\ BackendRejects(IdsOf(vs_out.args), ContentsOf(vs_out.args))

\* C15: an add_documents, update_documents or delete_documents that meets
\* an element without 'id' or 'content', or an error of the backend, raises
\* to its caller, and after a call that raised the collection holds the
\* records it held before the call.
C15_BatchAllOrNothing ==
  vs_out.op \in WriteOps =>
    /\ (ElementFailed \/ BackendFailed) => vs_out.status = "raise"
    /\ vs_out.status = "raise" => db = db_before

\* C15 witness: add_documents raised KeyError on the second element of a
\* batch whose first element is a well-formed record with a new id
C15_Witness ==
  /\ vs_out.op = "add_documents"
  /\ vs_out.status = "raise"
  /\ vs_out.error = "KeyError"
  /\ Len(vs_out.args) = 2
  /\ BatchError(<<vs_out.args[1]>>) = "none"
  /\ vs_out.args[1].value.id.value \notin DOMAIN db_before
  /\ db = db_before

\* C21: search returns at most n_results results, in non-decreasing
\* distance, all meeting the where filter; id, content and metadata of each
\* result are those of one record of the collection, and no record is
\* returned twice.
C21_SearchResults ==
  (vs_out.op = "search" /\ vs_out.status = "return") =>
    LET found == vs_out.value
    IN /\ Len(found) <= vs_out.args.n_results
       /\ \A k \in 1..(Len(found) - 1) : found[k].distance <= found[k + 1].distance
       /\ \A k \in 1..Len(found) :
            /\ found[k].id \in DOMAIN Matching(db, vs_out.args.where)
            /\ found[k].content = db[found[k].id].content
            /\ found[k].metadata = db[found[k].id].metadata
       /\ \A j, k \in 1..Len(found) : j # k => found[j].id # found[k].id

\* C21 witness: a search returned two records with different metadata, at
\* the same distance
C21_Witness ==
  /\ vs_out.op = "search"
  /\ vs_out.status = "return"
  /\ Len(vs_out.value) = 2
  /\ vs_out.value[1].metadata # vs_out.value[2].metadata
  /\ vs_out.value[1].distance = vs_out.value[2].distance

(***************************************************************************)
(* Properties of ingestion                                                 *)
(***************************************************************************)
\* an element that is not a mapping, lacks 'id' or 'content', or has an
\* 'id' or 'content' that is empty or not a str
MalformedElement(doc) ==
  \/ doc.type # "dict"
  \/ ~HasKey(doc, "id")
  \/ ~HasKey(doc, "content")
  \/ doc.value.id.type # "str"
  \/ doc.value.id.value = <<>>
  \/ doc.value.content.type # "str"
  \/ Strip(doc.value.content.value) = <<>>

\* C16: when an element of the loaded list is malformed,
\* validate_document_format does not accept the batch and convert_and_store
\* adds nothing to the collection.
C16_MalformedBatchRejected ==
  (/\ cs_pc = "done"
   /\ cs_out.loaded.kind = "list"
   /\ cs_out.fail_at # "init"
   /\ \E k \in 1..Len(cs_out.loaded.value) : MalformedElement(cs_out.loaded.value[k]))
    => /\ cs_out.validated # "True"
       /\ ~cs_out.add_called
       /\ db = db_before

(***************************************************************************)
(* Properties of the question-answering agent                              *)
(***************************************************************************)
\* C17: a call of QAAgent.ask with a question that is empty after trimming
\* ends in a validation error, and qa_chain.invoke (retrieval and model) is
\* not called for it.
C17_EmptyQuestionRejected ==
  (qa_out.op = "ask" /\ Strip(qa_out.question) = <<>>) =>
    /\ qa_out.out.status = "raise"
    /\ qa_out.out.error = "ValidationError"
    /\ ~qa_out.out.invoked

\* C20: in an answer structure, evidence and retrieved_context are as long
\* as the list of retrieved source documents, and entry i of both describes
\* document i: source_id = chunk_id = i, the content is its page_content,
\* chunk_size its length, source and page come from its metadata.
C20_EvidenceOneToOne ==
  (qa_out.op = "ask" /\ qa_out.out.status = "return") =>
    LET docs == IF qa_out.chain.has_sources THEN qa_out.chain.source_documents
                ELSE <<>>
        answer == qa_out.out.value
    IN /\ Len(answer.evidence) = Len(docs)
       /\ Len(answer.retrieved_context) = Len(docs)
       /\ \A k \in 1..Len(docs) :
            /\ answer.evidence[k].source_id = k
            /\ answer.retrieved_context[k].chunk_id = k
            /\ answer.retrieved_context[k].content = docs[k].page_content
            /\ answer.evidence[k].chunk_size = Len(answer.retrieved_context[k].content)
            /\ answer.evidence[k].source =
                 (IF "source" \in DOMAIN docs[k].metadata
                    THEN docs[k].metadata.source ELSE "Unknown")
            /\ answer.evidence[k].page =
                 (IF "page" \in DOMAIN docs[k].metadata
                    THEN docs[k].metadata.page ELSE "None")

\* C20 witness: an answer built from two retrieved documents, the first
\* without 'source' in its metadata, the second with source and page
C20_Witness ==
  /\ qa_out.op = "ask"
  /\ qa_out.out.status = "return"
  /\ qa_out.chain.has_sources
  /\ Len(qa_out.chain.source_documents) = 2
  /\ "source" \notin DOMAIN qa_out.chain.source_documents[1].metadata
  /\ "page" \in DOMAIN qa_out.chain.source_documents[2].metadata
  /\ qa_out.out.value.evidence[2].source_id = 2
  /\ qa_out.out.value.evidence[2].chunk_size = 2

(***************************************************************************)
(* Properties of repeated evaluation                                       *)
(***************************************************************************)
\* C18: when evaluate_rag_system is run twice on one harness against a
\* system whose ask is a function of the query, the second run gives one
\* result per test case with the is_correct and the confidence_score the
\* first run gave for that case.
C18_BenchmarkDeterminism ==
  (run = 2 /\ pc \in {"done", "regenerated"}) =>
    /\ Len(results) = Len(test_cases)
    /\ Len(first_scores) = Len(test_cases)
    /\ \A k \in 1..Len(test_cases) :
         /\ results[k].is_correct = first_scores[k].is_correct
         /\ results[k].confidence_score = first_scores[k].confidence_score

\* C18 witness: the second run ended on three cases, one answered
\* correctly and one that ended in a captured error, with response times
\* that differ from run to run left out of the comparison
C18_Witness ==
  /\ run = 2
  /\ pc = "done"
  /\ Len(results) = 3
  /\ \E k \in 1..3 : results[k].is_correct
  /\ \E k \in 1..3 : results[k].confidence_score = Zero /\ results[k].response_time = 0
  /\ \E k \in 1..3 : results[k].response_time > 0

\* C19 as claimed: two calls of _generate_report on the same results, test
\* cases and system name return equal reports.
C19_ReportsEqual ==
  pc = "regenerated" => report2 = report

\* C19 amended: the two reports are equal in every field other than
\* evaluation_timestamp.
C19_ReportsEqualButTimestamp ==
  pc = "regenerated" =>
    [report2 EXCEPT !.evaluation_timestamp = report.evaluation_timestamp] = report

\* C19 witness: the second report was made at a later time, from results
\* with a correct answer and a critical miss
C19_Witness ==
  /\ pc = "regenerated"
  /\ report2.evaluation_timestamp > report.evaluation_timestamp
  /\ report.total_cases >= 2
  /\ report.correct_answers >= 1
  /\ report.critical_misses # <<>>

\* C22: after a convert_and_store with clear_existing set that returned
\* True on a collection that held records, the collection holds the
\* records of the new batch and no other.
C22_ClearExisting ==
  (/\ cs_pc = "done"
   /\ cs_out.clear_existing
   /\ cs_out.returned
   /\ db_before # EmptyDict)
    => LET documents == cs_out.loaded.value
       IN /\ \A key \in DOMAIN db :
               \E k \in 1..Len(documents) : documents[k].value.id.value = key
          /\ \A k \in 1..Len(documents) :
               /\ documents[k].value.id.value \in DOMAIN db
               /\ db[documents[k].value.id.value].content
                    = documents[k].value.content.value

\* a fraction that denotes a number of the interval [0, 1]
InUnitInterval(x) == x[2] > 0 /\ 0 <= x[1] /\ x[1] <= x[2]

ErrorTexts == {NoMethodMessage, NoLowerMessage, BoomMessage}

\* C23: the confidence_score of every EvaluationResult lies in [0, 1]: the
\* score evaluate_answer returns for any expected and actual answer (no key
\* term and repeated key terms included) and the score of the result that
\* records a captured error.
C23_ConfidenceInUnitInterval ==
  /\ ea_pc = "done" => InUnitInterval(ea_out.confidence_score)
  /\ ea_pc = "done" =>
       InUnitInterval(SuccessResult([query |-> <<>>, expected_answer |-> ea_in.expected,
                                     difficulty |-> ea_in.difficulty, category |-> NoneValue],
                                    ea_in.actual, 0).confidence_score)
  /\ \A k \in 1..Len(create_test_cases) : \A e \in ErrorTexts :
       InUnitInterval(ErrorResult(create_test_cases[k], e).confidence_score)

\* an expected answer without any key term, and one whose key terms repeat
\* and all but two are found
C23_Witness ==
  /\ ea_pc = "done"
  /\ \/ /\ KeyTerms(Lower(ea_in.expected)) = <<>>
        /\ ea_in.actual # <<>>
     \/ /\ \E a, b \in 1..Len(KeyTerms(Lower(ea_in.expected))) :
             a # b /\ KeyTerms(Lower(ea_in.expected))[a] = KeyTerms(Lower(ea_in.expected))[b]
        /\ ea_out.confidence_score[1] > 1

S_new_orders == <<"n","e","w","-","o","r","d","e","r","s">>

\* C24: with the expected answer "new-orders", an answer that contains
\* "new-orders" in any letter case is scored correct with confidence 1, and
\* an answer that does not contain it is scored incorrect with confidence 0.
C24_NewOrders ==
  (ea_pc = "done" /\ ea_in.expected = S_new_orders)
    => IF Contains(S_new_orders, Lower(ea_in.actual))
         THEN /\ ea_out.is_correct
              /\ ea_out.confidence_score[1] = ea_out.confidence_score[2]
              /\ ea_out.confidence_score[2] > 0
         ELSE /\ ~ea_out.is_correct
              /\ ea_out.confidence_score[1] = 0
              /\ ea_out.confidence_score[2] > 0

\* the key term written in capitals in the answer
C24_Witness ==
  /\ ea_pc = "done"
  /\ ea_in.expected = S_new_orders
  /\ KeyTerms(Lower(ea_in.expected)) = <<S_new_orders>>
  /\ Contains(S_new_orders, Lower(ea_in.actual))
  /\ ~Contains(S_new_orders, ea_in.actual)
  /\ ea_out.is_correct

\* the sum of the response times of the results at the positions of S
RECURSIVE TimeOver(_)
TimeOver(S) ==
  IF S = {} THEN 0
  ELSE LET k == CHOOSE m \in S : TRUE
       IN results[k].response_time + TimeOver(S \ {k})

\* mean is the mean response time of the results at the positions of S
IsMeanOver(mean, S) ==
  /\ mean[2] > 0
  /\ S = {} => mean[1] = 0
  /\ S # {} => mean[1] * Cardinality(S) = TimeOver(S) * mean[2]

\* C25: avg_response_time and each response_time_by_difficulty value are
\* the mean over exactly the results with a positive response_time (overall,
\* of that difficulty); a captured error is recorded with response_time 0
\* and enters no mean; a mean over no case is 0.
C25_ResponseTimeMeans ==
  pc = "done" =>
    LET timed == {k \in 1..Len(results) : results[k].response_time > 0}
    IN /\ \A k \in 1..Len(results) :
            results[k].evaluation_notes.prefix = "System error: "
              => (results[k].response_time = 0 /\ k \notin timed)
       /\ IsMeanOver(report.avg_response_time, timed)
       /\ DOMAIN report.response_time_by_difficulty = {"EASY", "MEDIUM", "HARD"}
       /\ \A d \in {"EASY", "MEDIUM", "HARD"} :
            IsMeanOver(report.response_time_by_difficulty[d],
                       {k \in timed : results[k].difficulty = d})

\* a captured error and a timed answer of the same difficulty: the mean of
\* that difficulty is the time of the answer alone; a difficulty without a
\* timed case reports 0
C25_Witness ==
  /\ pc = "done"
  /\ \E k, m \in 1..Len(results) :
       /\ results[k].evaluation_notes.prefix = "System error: "
       /\ results[m].response_time > 0
       /\ results[m].difficulty = results[k].difficulty
       /\ report.response_time_by_difficulty[results[m].difficulty] = <<results[m].response_time, 1>>
       /\ report.avg_response_time[1] = report.avg_response_time[2]
  /\ \E d \in {"EASY", "MEDIUM", "HARD"} :
       /\ \E k \in 1..Len(results) : results[k].difficulty = d
       /\ report.response_time_by_difficulty[d] = Zero

\* an iteration of the loop whose window lies inside the text and ends
\* before its end
WindowInsideStep ==
  /\ ct_pc = "loop" /\ ct_pc' = "loop"
  /\ ct_start >= 0
  /\ ct_iter' = ct_iter + 1
  /\ ct_start + ct_max_size < Len(ct_text)

\* 0-based positions in lo..hi-1 where a "." stands, and where the second
\* terminator literal begins and ends before hi
PeriodsIn(lo, hi) == {k \in lo..(hi - 1) : ct_text[k + 1] = "."}

ChinesePeriodsIn(lo, hi) ==
  {k \in lo..(hi - Len(ChinesePeriod)) :
     \A j \in 1..Len(ChinesePeriod) : ct_text[k + j] = ChinesePeriod[j]}

Highest(S) == CHOOSE k \in S : \A m \in S : m <= k

\* the end of the window when the search covers its last margin characters
\* and the chunk ends just after the last terminator found there
EndAfterLastTerminator(margin) ==
  LET raw == ct_start + ct_max_size
      lo == Max2(raw - margin, ct_start)
      found == PeriodsIn(lo, raw) \cup ChinesePeriodsIn(lo, raw)
  IN IF found # {} THEN Highest(found) + 1 ELSE raw

\* C26: when a window ends before the end of the text, the backward search
\* covers exactly its last overlap characters: the chunk ends just after
\* the last terminator there, and at the raw window boundary when there is
\* none, whatever stands earlier in the window.
C26_SearchCoversOverlap ==
  [][ WindowInsideStep => ct_start' + ct_overlap = EndAfterLastTerminator(ct_overlap) ]_vars

\* the parameters C28 is about
WideEnough == ct_overlap >= 0 /\ ct_max_size >= ct_overlap + SentenceMargin

\* an iteration of the loop that does not reach the end of the text
InnerStep ==
  /\ ct_pc = "loop" /\ ct_pc' = "loop"
  /\ ct_iter' = ct_iter + 1
  /\ ct_start' < Len(ct_text)

\* C28: with max_size >= overlap + 200 and overlap >= 0, start is never
\* negative and every iteration that does not reach the end of the text
\* increases start by at least max_size - 199 - overlap >= 1; so start,
\* which never exceeds the length of the text, bounds the number of
\* iterations made, the loop is never still running after MaxIter
\* iterations, and chunk_text returns.
C28_WideWindowsTerminate ==
  /\ [](WideEnough => (ct_start >= 0 /\ ct_start <= Len(ct_text) /\ ct_iter <= ct_start))
  /\ [](WideEnough /\ ct_pc = "loop" /\ ct_start < Len(ct_text) => ct_iter < MaxIter)
  /\ [][ (WideEnough /\ InnerStep)
           => /\ ct_start' - ct_start >= ct_max_size - (SentenceMargin - 1) - ct_overlap
              /\ ct_start' > ct_start ]_vars
  /\ [][ (WideEnough /\ ct_pc = "loop" /\ ct_iter' = ct_iter + 1) => ct_start' > ct_start ]_vars

\* the smallest step the claim allows: the only terminator of the first
\* window stands at the first position of the search, with overlap in use
C28_Witness ==
  /\ WideEnough
  /\ ct_pc = "loop"
  /\ ct_iter = 1
  /\ ct_overlap > 0
  /\ ct_start = ct_max_size - (SentenceMargin - 1) - ct_overlap
  /\ ct_start < Len(ct_text)

\* C27: after evaluate_rag_system has run, the results attribute of the
\* harness holds the results of that run, and the detailed-results file
\* saved right after holds one result per test case, with total_cases the
\* number of test cases.
C27_ResultsAttributeSaved ==
  /\ pc = "done" => self_results = results
  /\ (pc = "done" /\ results_file.run = run)
       => /\ Len(results_file.data.results) = Len(test_cases)
          /\ results_file.data.evaluation_metadata.total_cases = Len(test_cases)
          /\ results_file.data.results = results

\* C29: convert_and_store never raises; it returns False when the store
\* cannot be initialised, the file is unreadable or not a list, validation
\* fails or add_documents raises; it returns True only after add_documents
\* has returned without error; when validation fails add_documents is not
\* called.
C29_ConvertNeverRaises ==
  cs_pc = "done" =>
    /\ cs_out.status = "return"
    /\ cs_out.returned \in BOOLEAN
    /\ (\/ cs_out.fail_at = "init"
        \/ cs_out.loaded.kind # "list"
        \/ cs_out.validated \notin {"True", "not called"}
        \/ cs_out.added = "raise") => ~cs_out.returned
    /\ cs_out.returned => (cs_out.added = "return" /\ cs_out.validated = "True")
    /\ cs_out.validated # "True" => (cs_out.added = "not called" /\ db = db_before)

\* a batch that passes validation and that the backend then rejects: False
\* is returned, nothing is raised and the collection is as it was
C29_Witness ==
  /\ cs_pc = "done"
  /\ cs_out.fail_at = "none"
  /\ cs_out.validated = "True"
  /\ cs_out.added = "raise"
  /\ cs_out.status = "return"
  /\ ~cs_out.returned
  /\ db = db_before

DistinctQueries ==
  \A k, m \in 1..Len(test_cases) :
    test_cases[k].query = test_cases[m].query => k = m

\* C30: a report returned for test cases with pairwise distinct queries has
\* 0 <= correct_answers <= total_cases = number of test cases,
\* overall_accuracy = correct_answers / total_cases (0 without a case),
\* every per-difficulty and per-category accuracy in [0, 1], and at most
\* total_cases - correct_answers critical misses.
C30_ReportInvariants ==
  (pc = "done" /\ DistinctQueries) =>
    LET right == Cardinality({k \in 1..Len(results) : results[k].is_correct})
    IN /\ report.total_cases = Len(test_cases)
       /\ report.correct_answers = right
       /\ 0 <= report.correct_answers
       /\ report.correct_answers <= report.total_cases
       /\ report.overall_accuracy[2] > 0
       /\ report.total_cases = 0 => report.overall_accuracy[1] = 0
       /\ report.total_cases > 0 =>
            report.overall_accuracy[1] * report.total_cases
              = report.correct_answers * report.overall_accuracy[2]
       /\ \A d \in DOMAIN report.accuracy_by_difficulty :
            InUnitInterval(report.accuracy_by_difficulty[d])
       /\ \A c \in DOMAIN report.accuracy_by_category :
            InUnitInterval(report.accuracy_by_category[c])
       /\ Len(report.critical_misses) <= report.total_cases - report.correct_answers

\* three cases, two of them CRITICAL: the first CRITICAL one missed, the
\* second answered correctly, one critical miss reported
C30_Witness ==
  /\ pc = "done"
  /\ DistinctQueries
  /\ report.total_cases = 3
  /\ report.correct_answers \in 1..2
  /\ Len(report.critical_misses) = 1
  /\ \E k, m \in 1..3 :
       /\ k < m
       /\ test_cases[k].importance = "CRITICAL" /\ ~results[k].is_correct
       /\ test_cases[m].importance = "CRITICAL" /\ results[m].is_correct
       /\ report.critical_misses = <<test_cases[k].query>>

====
